---- MODULE Spec2Model ----
(***************************************************************************)
(* AWS Friendly Counsellor: the classification / recommendation / cost /   *)
(* guide pipeline of backend/services, the request validation of           *)
(* backend/models, the API-key check and rate limiter of backend/security  *)
(* and the three POST operations of backend/handler.py.                    *)
(*                                                                         *)
(* Spec: the pure functions, one call at a time.  SpecLimiter: the rate    *)
(* limiter called directly under a clock.  SpecApi: the POST operations.   *)
(* SpecRace: check_rate_limit run by several threads, line by line.        *)
(*                                                                         *)
(* Python strings are TLA+ strings; str.lower, the `in` substring test,    *)
(* str.split and the f-string conversions are computed character by        *)
(* character.  Python dicts are sequences of entries in insertion order.   *)
(***************************************************************************)
EXTENDS Integers, Sequences, FiniteSets, TLC

VARIABLES
    op,               \* the function or handler that ran last
    description,      \* its description argument
    estimated_users,  \* its users argument
    classification,   \* the classification (classifier result, recommender input)
    services,         \* the list returned by recommend_services
    service_names,    \* the list of strings handed to calculate_costs / generate_guide
    cost_analysis,    \* the result of calculate_costs
    guide,            \* the result of generate_guide
    raw_description,  \* the description as the client sent it
    budget,           \* the budget field of the request
    validation,       \* what AnalysisRequest did with the request
    estimate_key,     \* the service_key argument of get_cost_estimate
    cost_estimate,    \* the string returned by get_cost_estimate
    allow_anonymous,  \* the ALLOW_ANONYMOUS setting is "true"
    x_api_key,        \* the X-API-Key header of the request ("" when absent)
    api_key,          \* the identity verify_api_key returned ("" when it raised)
    status,           \* the HTTP status of the response (0: no response)
    detail,           \* the detail field of an error response
    rate_limit_storage, \* auth.rate_limit_storage: key -> list of timestamps
    now,              \* time.time(), in whole seconds
    accepted,         \* history: key -> times at which check_rate_limit returned
    t_pc,             \* per thread: the next step of its check_rate_limit call
    t_now,            \* per thread: the local now
    t_requests,       \* per thread: the local list requests
    owner             \* the thread whose local list is the stored list object (0: none)

\* the last pipeline call
pipeline_vars == <<op, description, estimated_users, classification, services,
                   service_names, cost_analysis, guide>>

\* the last request validation and the last get_cost_estimate call
call_vars == <<raw_description, budget, validation, estimate_key, cost_estimate>>

\* the HTTP exchange
http_vars == <<allow_anonymous, x_api_key, api_key, status, detail>>

\* the rate limiter
limiter_vars == <<rate_limit_storage, now, accepted>>

\* the threads inside check_rate_limit
thread_vars == <<t_pc, t_now, t_requests, owner>>

vars == <<pipeline_vars, call_vars, http_vars, limiter_vars, thread_vars>>

(***************************************************************************)
(* Bounds of the explored inputs.                                          *)
(***************************************************************************)
\* longest description, in vocabulary words
MaxWords == 2
\* longest classification.features list handed to recommend_services
MaxFeatures == 2
\* longest list handed directly to calculate_costs / generate_guide
MaxNames == 2
\* threads calling check_rate_limit at the same time
NumThreads == 2
\* the last second of the clock
MaxTime == 4
\* the accepted calls after which no thread starts another call
MaxAccepted == 4

(***************************************************************************)
(* Strings.                                                                *)
(***************************************************************************)
UpperChars == "ABCDEFGHIJKLMNOPQRSTUVWXYZ"

LowerChars == "abcdefghijklmnopqrstuvwxyz"

Char(s, i) == SubSeq(s, i, i)

UpperSet == {Char(UpperChars, i) : i \in 1..Len(UpperChars)}

LowerSet == {Char(LowerChars, i) : i \in 1..Len(LowerChars)}

\* the lower-case letter of each upper-case letter
ToLower ==
    [c \in UpperSet |->
        Char(LowerChars, CHOOSE i \in 1..Len(UpperChars) : Char(UpperChars, i) = c)]

\* str.lower() of one ASCII character
LowerChar(c) == IF c \in UpperSet THEN ToLower[c] ELSE c

RECURSIVE Lower(_)
\* str.lower()
Lower(s) ==
    IF Len(s) = 0 THEN ""
    ELSE IF Len(s) = 1 THEN LowerChar(s)
    ELSE Lower(SubSeq(s, 1, Len(s) \div 2)) \o Lower(SubSeq(s, Len(s) \div 2 + 1, Len(s)))

\* `sub in s` for strings
Contains(sub, s) ==
    \E i \in 1..(Len(s) - Len(sub) + 1) : SubSeq(s, i, i + Len(sub) - 1) = sub

Min(a, b) == IF a <= b THEN a ELSE b

Max(a, b) == IF a >= b THEN a ELSE b

(***************************************************************************)
(* services/classifier.py                                                  *)
(***************************************************************************)
USE_CASE_KEYWORDS ==
  <<
    [category |-> "web_application",
     keywords |-> <<"web", "website", "blog", "cms", "portal">>],
    [category |-> "ecommerce",
     keywords |-> <<"ecommerce", "store", "shop", "product", "cart", "checkout", "payment">>],
    [category |-> "marketplace",
     keywords |-> <<"marketplace", "platform", "seller", "buyer", "vendor">>],
    [category |-> "social",
     keywords |-> <<"social", "feed", "post", "follower", "like", "comment", "share">>],
    [category |-> "mobile_backend",
     keywords |-> <<"mobile", "app", "ios", "android", "push notification">>],
    [category |-> "api",
     keywords |-> <<"api", "endpoint", "rest", "graphql", "webhook">>],
    [category |-> "real_time",
     keywords |-> <<"real-time", "realtime", "chat", "messaging", "live", "websocket">>],
    [category |-> "file_storage",
     keywords |-> <<"file", "upload", "photo", "image", "video", "document", "storage">>],
    [category |-> "authentication",
     keywords |-> <<"auth", "login", "signup", "user", "password", "oauth", "sso">>],
    [category |-> "analytics",
     keywords |-> <<"analytics", "tracking", "metrics", "dashboard", "reporting">>]
  >>

\* confidence is kept as a numerator over ConfidenceScale (0.5 = 25/50,
\* max_score / 5.0 = 10 * max_score / 50, the 0.9 discount = 9 * max_score / 50)
ConfidenceScale == 50

\* KeywordScore counting every occurrence of a keyword
KeywordScore_Occurrences(keywords, description_lower) ==
    Cardinality({<<i, j>> \in (1..Len(keywords)) \X (1..Len(description_lower)) :
                    /\ j + Len(keywords[i]) - 1 <= Len(description_lower)
                    /\ SubSeq(description_lower, j, j + Len(keywords[i]) - 1)
                         = keywords[i]})

\* sum(1 for kw in keywords if kw in description_lower)
KeywordScore(keywords, description_lower) ==
    Cardinality({i \in 1..Len(keywords) : Contains(keywords[i], description_lower)})

\* Scores without the `if score > 0` filter of line 27
Scores_KeepZero(description_lower) ==
    [i \in 1..Len(USE_CASE_KEYWORDS) |->
        [category |-> USE_CASE_KEYWORDS[i].category,
         score |-> KeywordScore(USE_CASE_KEYWORDS[i].keywords, description_lower)]]

\* the scores dict: the categories that score above 0, in declaration order
Scores(description_lower) ==
    LET all == [i \in 1..Len(USE_CASE_KEYWORDS) |->
                  [category |-> USE_CASE_KEYWORDS[i].category,
                   score |-> KeywordScore(USE_CASE_KEYWORDS[i].keywords,
                                          description_lower)]]
    IN  SelectSeq(all, LAMBDA e : e.score > 0)

RECURSIVE SortedScores_LastFirst(_)
\* SortedScores with the later of two equal scores first
SortedScores_LastFirst(items) ==
    IF items = <<>> THEN <<>>
    ELSE LET top == CHOOSE i \in 1..Len(items) :
                       /\ \A j \in 1..Len(items) : items[j].score <= items[i].score
                       /\ \A j \in (i + 1)..Len(items) : items[j].score < items[i].score
         IN  <<items[top]>> \o
             SortedScores_LastFirst(SubSeq(items, 1, top - 1)
                                    \o SubSeq(items, top + 1, Len(items)))

RECURSIVE SortedScores(_)
\* sorted(scores.items(), key=lambda x: x[1], reverse=True): stable, so equal
\* scores keep their order in scores
SortedScores(items) ==
    IF items = <<>> THEN <<>>
    ELSE LET top == CHOOSE i \in 1..Len(items) :
                       /\ \A j \in 1..Len(items) : items[j].score <= items[i].score
                       /\ \A j \in 1..(i - 1) : items[j].score < items[i].score
         IN  <<items[top]>> \o
             SortedScores(SubSeq(items, 1, top - 1) \o SubSeq(items, top + 1, Len(items)))

\* the discount test of line 42: sorted_scores[1][1] >= max_score * 0.7
NearTie(sorted_scores) ==
    /\ Len(sorted_scores) > 1
    /\ 10 * sorted_scores[2].score >= 7 * sorted_scores[1].score

\* min(max_score / 5.0, 1.0), then *= 0.9 on a near tie
Confidence(sorted_scores) ==
    LET base == Min((ConfidenceScale \div 5) * sorted_scores[1].score, ConfidenceScale)
    IN  IF NearTie(sorted_scores) THEN (9 * base) \div 10 ELSE base

\* Features without the [:4] slice of line 45
Features_Untruncated(sorted_scores) ==
    [i \in 1..Len(sorted_scores) |-> sorted_scores[i].category]

\* features = [cat for cat, _ in sorted_scores[:4]]
Features(sorted_scores) ==
    [i \in 1..Min(4, Len(sorted_scores)) |-> sorted_scores[i].category]

classify_use_case(d) ==
    LET scores == Scores(Lower(d))
        sorted_scores == SortedScores(scores)
    IN  IF scores = <<>>
        THEN [primary |-> "web_application",
              confidence |-> ConfidenceScale \div 2,
              features |-> <<"web_application">>]
        ELSE [primary |-> sorted_scores[1].category,
              confidence |-> Confidence(sorted_scores),
              features |-> Features(sorted_scores)]

(***************************************************************************)
(* services/recommender.py                                                 *)
(***************************************************************************)
SERVICE_CATALOG ==
  <<
    [category |-> "ecommerce",
     services |-> <<
        [key |-> "cognito",
         name |-> "Amazon Cognito",
         category |-> "authentication",
         why |-> "Manages customer accounts, login/signup, and secure authentication for shoppers",
         use_case |-> "Customer registration, login, password reset, and session management"],
        [key |-> "dynamodb",
         name |-> "Amazon DynamoDB",
         category |-> "database",
         why |-> "Stores products, orders, shopping carts, and customer data with millisecond response times",
         use_case |-> "Product catalog with search, order history, real-time inventory tracking"],
        [key |-> "lambda",
         name |-> "AWS Lambda",
         category |-> "compute",
         why |-> "Handles checkout logic, payment processing, order confirmation, and inventory updates",
         use_case |-> "Process payments with Stripe/PayPal, calculate shipping, apply discounts"],
        [key |-> "api-gateway",
         name |-> "Amazon API Gateway",
         category |-> "api",
         why |-> "Provides secure REST APIs for product browsing, cart operations, and checkout",
         use_case |-> "API endpoints: /products, /cart, /checkout, /orders"],
        [key |-> "s3",
         name |-> "Amazon S3",
         category |-> "storage",
         why |-> "Stores product images, promotional banners, and invoices with 99.999999999% durability",
         use_case |-> "Product photos, category images, downloadable receipts"],
        [key |-> "ses",
         name |-> "Amazon SES",
         category |-> "email",
         why |-> "Sends order confirmations, shipping notifications, and promotional emails",
         use_case |-> "Transactional emails: order confirmation, shipping updates, password reset"],
        [key |-> "cloudfront",
         name |-> "Amazon CloudFront",
         category |-> "cdn",
         why |-> "Delivers product images and website assets globally with low latency",
         use_case |-> "Fast image loading worldwide, reduced S3 costs"]
      >>],
    [category |-> "social",
     services |-> <<
        [key |-> "cognito",
         name |-> "Amazon Cognito",
         category |-> "authentication",
         why |-> "Manages user profiles, authentication, and social login (Google, Facebook)",
         use_case |-> "User signup/login, profile management, OAuth integration"],
        [key |-> "dynamodb",
         name |-> "Amazon DynamoDB",
         category |-> "database",
         why |-> "Stores posts, comments, likes, and follower relationships with fast queries",
         use_case |-> "User posts with timestamps, comment threads, follower/following lists"],
        [key |-> "lambda",
         name |-> "AWS Lambda",
         category |-> "compute",
         why |-> "Generates personalized feeds, processes likes/comments, sends notifications",
         use_case |-> "Feed algorithm, notification triggers, content moderation"],
        [key |-> "api-gateway",
         name |-> "Amazon API Gateway",
         category |-> "api",
         why |-> "REST APIs for posting, commenting, liking, and following users",
         use_case |-> "Endpoints: /posts, /comments, /likes, /follow"],
        [key |-> "s3",
         name |-> "Amazon S3",
         category |-> "storage",
         why |-> "Stores user-uploaded photos, videos, and profile pictures",
         use_case |-> "Photo uploads, video hosting, profile avatars"],
        [key |-> "cloudfront",
         name |-> "Amazon CloudFront",
         category |-> "cdn",
         why |-> "Delivers media content globally with low latency for better user experience",
         use_case |-> "Fast photo/video loading, reduced bandwidth costs"]
      >>],
    [category |-> "marketplace",
     services |-> <<
        [key |-> "cognito",
         name |-> "Amazon Cognito",
         category |-> "authentication",
         why |-> "Separate authentication for buyers and sellers with role-based access",
         use_case |-> "Buyer/seller accounts, vendor verification, multi-role permissions"],
        [key |-> "dynamodb",
         name |-> "Amazon DynamoDB",
         category |-> "database",
         why |-> "Stores listings, bids, transactions, and seller profiles",
         use_case |-> "Product listings, bidding history, escrow transactions, seller ratings"],
        [key |-> "lambda",
         name |-> "AWS Lambda",
         category |-> "compute",
         why |-> "Handles bidding logic, payment escrow, commission calculations, and notifications",
         use_case |-> "Bid processing, payment splits, seller payouts, dispute resolution"],
        [key |-> "api-gateway",
         name |-> "Amazon API Gateway",
         category |-> "api",
         why |-> "APIs for listings, bidding, messaging between buyers/sellers",
         use_case |-> "Endpoints: /listings, /bids, /messages, /transactions"],
        [key |-> "s3",
         name |-> "Amazon S3",
         category |-> "storage",
         why |-> "Stores product images, seller documents, and transaction receipts",
         use_case |-> "Listing photos, seller verification docs, invoices"],
        [key |-> "ses",
         name |-> "Amazon SES",
         category |-> "email",
         why |-> "Sends bid notifications, transaction confirmations, and seller alerts",
         use_case |-> "Bid updates, sale confirmations, payout notifications"]
      >>],
    [category |-> "blog",
     services |-> <<
        [key |-> "s3",
         name |-> "Amazon S3",
         category |-> "storage",
         why |-> "Hosts your static blog website (HTML, CSS, JS) with high availability",
         use_case |-> "Static site hosting, article pages, images"],
        [key |-> "cloudfront",
         name |-> "Amazon CloudFront",
         category |-> "cdn",
         why |-> "Delivers your blog globally with fast load times and HTTPS",
         use_case |-> "Global content delivery, SSL certificate, DDoS protection"],
        [key |-> "lambda",
         name |-> "AWS Lambda",
         category |-> "compute",
         why |-> "Handles dynamic features like comments, contact forms, and search",
         use_case |-> "Comment processing, email notifications, search indexing"],
        [key |-> "dynamodb",
         name |-> "Amazon DynamoDB",
         category |-> "database",
         why |-> "Stores comments, page views, and subscriber data",
         use_case |-> "Comment storage, analytics tracking, email subscribers"]
      >>],
    [category |-> "saas",
     services |-> <<
        [key |-> "cognito",
         name |-> "Amazon Cognito",
         category |-> "authentication",
         why |-> "Multi-tenant authentication with organization isolation and SSO support",
         use_case |-> "Company accounts, team member access, SSO integration"],
        [key |-> "dynamodb",
         name |-> "Amazon DynamoDB",
         category |-> "database",
         why |-> "Stores tenant data, subscriptions, usage metrics with tenant isolation",
         use_case |-> "Customer data, subscription plans, usage tracking, billing"],
        [key |-> "lambda",
         name |-> "AWS Lambda",
         category |-> "compute",
         why |-> "Handles business logic, API processing, and background jobs",
         use_case |-> "Data processing, scheduled tasks, webhook integrations"],
        [key |-> "api-gateway",
         name |-> "Amazon API Gateway",
         category |-> "api",
         why |-> "Provides REST/GraphQL APIs with rate limiting and API key management",
         use_case |-> "Public API, webhook endpoints, third-party integrations"],
        [key |-> "s3",
         name |-> "Amazon S3",
         category |-> "storage",
         why |-> "Stores customer files, exports, and backups with encryption",
         use_case |-> "File uploads, data exports, automated backups"]
      >>],
    [category |-> "mobile_backend",
     services |-> <<
        [key |-> "cognito",
         name |-> "Amazon Cognito",
         category |-> "authentication",
         why |-> "Mobile-optimized authentication with social login and biometric support",
         use_case |-> "App login, Face ID/fingerprint, Google/Apple sign-in"],
        [key |-> "dynamodb",
         name |-> "Amazon DynamoDB",
         category |-> "database",
         why |-> "Stores app data with offline sync capabilities via AWS AppSync",
         use_case |-> "User preferences, app state, offline-first data"],
        [key |-> "lambda",
         name |-> "AWS Lambda",
         category |-> "compute",
         why |-> "Backend API logic for mobile app features",
         use_case |-> "Data processing, push notification triggers, API logic"],
        [key |-> "api-gateway",
         name |-> "Amazon API Gateway",
         category |-> "api",
         why |-> "RESTful APIs optimized for mobile with low latency",
         use_case |-> "Mobile API endpoints with caching"],
        [key |-> "s3",
         name |-> "Amazon S3",
         category |-> "storage",
         why |-> "Stores user-generated content like photos and videos from mobile",
         use_case |-> "Image uploads, video storage, app assets"]
      >>],
    [category |-> "api",
     services |-> <<
        [key |-> "lambda",
         name |-> "AWS Lambda",
         category |-> "compute",
         why |-> "Executes API logic without managing servers, auto-scales with traffic",
         use_case |-> "API endpoints, data transformations, integrations"],
        [key |-> "api-gateway",
         name |-> "Amazon API Gateway",
         category |-> "api",
         why |-> "Manages API versioning, rate limiting, API keys, and documentation",
         use_case |-> "REST API with authentication, throttling, monitoring"],
        [key |-> "dynamodb",
         name |-> "Amazon DynamoDB",
         category |-> "database",
         why |-> "Fast NoSQL storage for API data with predictable performance",
         use_case |-> "API data storage, caching, session management"]
      >>],
    [category |-> "real_time",
     services |-> <<
        [key |-> "appsync",
         name |-> "AWS AppSync",
         category |-> "api",
         why |-> "Real-time GraphQL subscriptions for live updates",
         use_case |-> "Live chat messages, real-time notifications, collaborative editing"],
        [key |-> "lambda",
         name |-> "AWS Lambda",
         category |-> "compute",
         why |-> "Processes messages, broadcasts updates, and triggers notifications",
         use_case |-> "Message routing, presence detection, notification logic"],
        [key |-> "dynamodb",
         name |-> "Amazon DynamoDB",
         category |-> "database",
         why |-> "Stores chat history, user presence, and connection states",
         use_case |-> "Message persistence, online/offline status, conversation threads"]
      >>]
  >>

\* DEFAULT_SERVICES without its database entry
DEFAULT_SERVICES_NoDatabase ==
  <<
    [key |-> "lambda",
     name |-> "AWS Lambda",
     category |-> "compute",
     why |-> "Runs your application code without managing servers",
     use_case |-> "Backend logic, API processing, scheduled tasks"],
    [key |-> "s3",
     name |-> "Amazon S3",
     category |-> "storage",
     why |-> "Stores files, images, and static assets with high durability",
     use_case |-> "File uploads, static website hosting, backups"]
  >>

DEFAULT_SERVICES ==
  <<
    [key |-> "lambda",
     name |-> "AWS Lambda",
     category |-> "compute",
     why |-> "Runs your application code without managing servers",
     use_case |-> "Backend logic, API processing, scheduled tasks"],
    [key |-> "api-gateway",
     name |-> "Amazon API Gateway",
     category |-> "api",
     why |-> "Creates and manages REST APIs for your application",
     use_case |-> "API endpoints with authentication and monitoring"],
    [key |-> "dynamodb",
     name |-> "Amazon DynamoDB",
     category |-> "database",
     why |-> "Stores your application data with fast, predictable performance",
     use_case |-> "User data, application state, content storage"],
    [key |-> "s3",
     name |-> "Amazon S3",
     category |-> "storage",
     why |-> "Stores files, images, and static assets with high durability",
     use_case |-> "File uploads, static website hosting, backups"]
  >>

FEATURE_SERVICES ==
  <<
    [category |-> "authentication",
     services |-> <<
        [key |-> "cognito",
         name |-> "Amazon Cognito",
         category |-> "authentication",
         why |-> "Handles user authentication and authorization securely",
         use_case |-> "User signup, login, password management, MFA"]
      >>],
    [category |-> "email",
     services |-> <<
        [key |-> "ses",
         name |-> "Amazon SES",
         category |-> "email",
         why |-> "Sends transactional and marketing emails reliably",
         use_case |-> "Email notifications, newsletters, alerts"]
      >>],
    [category |-> "file_storage",
     services |-> <<
        [key |-> "s3",
         name |-> "Amazon S3",
         category |-> "storage",
         why |-> "Stores user-uploaded files with 99.999999999% durability",
         use_case |-> "Document uploads, media storage, backups"]
      >>]
  >>

CatalogCategories == {SERVICE_CATALOG[i].category : i \in 1..Len(SERVICE_CATALOG)}

\* SERVICE_CATALOG[category], for a category that is a key of it
CatalogOf(category) ==
    SERVICE_CATALOG[CHOOSE i \in 1..Len(SERVICE_CATALOG) :
                      SERVICE_CATALOG[i].category = category].services

\* service_key in services
HasKey(svcs, service_key) == \E i \in 1..Len(svcs) : svcs[i].key = service_key

\* PrimaryServices with the catalog lookup of line 335 never succeeding
PrimaryServices_DefaultOnly(primary) == DEFAULT_SERVICES

\* PrimaryServices with nothing for a primary outside the catalog
PrimaryServices_NoFallback(primary) ==
    IF primary \in CatalogCategories THEN CatalogOf(primary) ELSE <<>>

\* step 1 (lines 335-341): the primary's catalog entry, or the default set
PrimaryServices(primary) ==
    IF primary \in CatalogCategories THEN CatalogOf(primary) ELSE DEFAULT_SERVICES

\* AddMissing without the `service_key not in services` test of line 348
AddMissing_NoCheck(svcs, entries) == svcs \o entries

RECURSIVE AddMissing_Front(_, _)
\* AddMissing putting each new entry before the entries already present
AddMissing_Front(svcs, entries) ==
    IF entries = <<>> THEN svcs
    ELSE AddMissing_Front(IF HasKey(svcs, Head(entries).key) THEN svcs
                          ELSE <<Head(entries)>> \o svcs,
                          Tail(entries))

RECURSIVE AddMissing(_, _)
\* lines 347-349: add the entries whose key is not already present
AddMissing(svcs, entries) ==
    IF entries = <<>> THEN svcs
    ELSE AddMissing(IF HasKey(svcs, Head(entries).key) THEN svcs
                    ELSE Append(svcs, Head(entries)),
                    Tail(entries))

RECURSIVE AddFeatures(_, _, _)
\* step 2 (lines 344-350): the services of every non-primary feature in the catalog
AddFeatures(svcs, features, primary) ==
    IF features = <<>> THEN svcs
    ELSE AddFeatures(IF Head(features) # primary /\ Head(features) \in CatalogCategories
                     THEN AddMissing(svcs, CatalogOf(Head(features)))
                     ELSE svcs,
                     Tail(features), primary)

\* three digits of a thousands group, zero padded
Pad3(n) ==
    IF n < 10 THEN "00" \o ToString(n)
    ELSE IF n < 100 THEN "0" \o ToString(n) ELSE ToString(n)

RECURSIVE Thousands(_)
\* f"{n:,}"
Thousands(n) ==
    IF n < 1000 THEN ToString(n)
    ELSE Thousands(n \div 1000) \o "," \o Pad3(n % 1000)

\* the entry synthesized at lines 354-359
CloudFrontEntry(users) ==
    [key |-> "cloudfront",
     name |-> "Amazon CloudFront",
     category |-> "cdn",
     why |-> "Essential for " \o Thousands(users)
             \o " users - delivers content globally with low latency",
     use_case |-> "Global CDN, caching, DDoS protection"]

\* AddCloudFront without the `"cloudfront" not in services` test of line 353
AddCloudFront_NoCheck(svcs, users) ==
    IF users > 10000 THEN Append(svcs, CloudFrontEntry(users)) ELSE svcs

\* step 3 (lines 353-360)
AddCloudFront(svcs, users) ==
    IF users > 10000 /\ ~HasKey(svcs, "cloudfront")
    THEN Append(svcs, CloudFrontEntry(users))
    ELSE svcs

\* the services dict of recommend_services after steps 1-3, in insertion order
CollectedServices(c, users) ==
    AddCloudFront(AddFeatures(PrimaryServices(c.primary), c.features, c.primary), users)

\* Multiplier2 without the 2.0 tier of lines 387-388
Multiplier2_NoThirdTier(users) ==
    IF users < 1000 THEN 1
    ELSE IF users < 100000 THEN 2
    ELSE 8

\* Multiplier2 with the first tier's limit of line 383 written as 10000
Multiplier2_WideFirstTier(users) ==
    IF users < 10000 THEN 1
    ELSE IF users < 100000 THEN 4
    ELSE 8

\* Multiplier2 with the last tier of line 390 falling back to 0.5
Multiplier2_LastTierFalls(users) ==
    IF users < 1000 THEN 1
    ELSE IF users < 10000 THEN 2
    ELSE IF users < 100000 THEN 4
    ELSE 1

\* twice the multiplier of lines 383-390 (0.5, 1.0, 2.0, 4.0)
Multiplier2(users) ==
    IF users < 1000 THEN 1
    ELSE IF users < 10000 THEN 2
    ELSE IF users < 100000 THEN 4
    ELSE 8

\* base_costs (lines 392-401)
base_costs ==
    <<[key |-> "lambda", min |-> 10, max |-> 50],
      [key |-> "api-gateway", min |-> 5, max |-> 30],
      [key |-> "dynamodb", min |-> 5, max |-> 30],
      [key |-> "s3", min |-> 5, max |-> 20],
      [key |-> "cognito", min |-> 0, max |-> 25],
      [key |-> "ses", min |-> 0, max |-> 10],
      [key |-> "cloudfront", min |-> 10, max |-> 50],
      [key |-> "appsync", min |-> 5, max |-> 40]>>

\* ScaleCost rounding up
ScaleCost_Ceil(cost, users) == (cost * Multiplier2(users) + 1) \div 2

\* int(cost * multiplier), for the non-negative costs of base_costs
ScaleCost(cost, users) == (cost * Multiplier2(users)) \div 2

\* ScaledRange with the two ends of line 407 exchanged
ScaledRange_Swapped(service_key, users) ==
    IF \E i \in 1..Len(base_costs) : base_costs[i].key = service_key
    THEN LET b == base_costs[CHOOSE i \in 1..Len(base_costs) :
                               base_costs[i].key = service_key]
         IN  [min |-> ScaleCost(b.max, users), max |-> ScaleCost(b.min, users)]
    ELSE [min |-> 5, max |-> 30]

\* (scaled_min, scaled_max) of lines 403-409, (5, 30) for a key without base range
ScaledRange(service_key, users) ==
    IF \E i \in 1..Len(base_costs) : base_costs[i].key = service_key
    THEN LET b == base_costs[CHOOSE i \in 1..Len(base_costs) :
                               base_costs[i].key = service_key]
         IN  [min |-> ScaleCost(b.min, users), max |-> ScaleCost(b.max, users)]
    ELSE [min |-> 5, max |-> 30]

\* f"{scaled_min}-{scaled_max}", or the literal "5-30"
get_cost_estimate(service_key, users) ==
    LET r == ScaledRange(service_key, users)
    IN  ToString(r.min) \o "-" \o ToString(r.max)

free_tiers ==
    <<[key |-> "lambda", text |-> "1M requests + 400K GB-seconds"],
      [key |-> "api-gateway", text |-> "1M requests (12 months)"],
      [key |-> "dynamodb", text |-> "25GB + 25 WCU/RCU"],
      [key |-> "s3", text |-> "5GB storage"],
      [key |-> "cognito", text |-> "50K MAU"],
      [key |-> "ses", text |-> "62K emails/month"],
      [key |-> "cloudfront", text |-> "1TB data transfer"],
      [key |-> "appsync", text |-> "250K query/mutation"]>>

get_free_tier(service_key) ==
    IF \E i \in 1..Len(free_tiers) : free_tiers[i].key = service_key
    THEN free_tiers[CHOOSE i \in 1..Len(free_tiers) : free_tiers[i].key = service_key].text
    ELSE "Limited free tier"

\* step 4 (lines 363-372): one result dict per collected service
ResultEntry(entry, users) ==
    [name |-> entry.name,
     category |-> entry.category,
     typical_monthly |-> get_cost_estimate(entry.key, users),
     free_tier |-> get_free_tier(entry.key),
     why_needed |-> entry.why,
     use_case_example |-> entry.use_case]

recommend_services(c, users) ==
    LET collected == CollectedServices(c, users)
    IN  [i \in 1..Len(collected) |-> ResultEntry(collected[i], users)]

(***************************************************************************)
(* services/cost_calculator.py                                             *)
(***************************************************************************)
AWS_SERVICES_DB ==
  <<
    [key |-> "lambda", name |-> "AWS Lambda", category |-> "compute",
     typical_monthly |-> "10-50", free_tier |-> "1M requests + 400K GB-seconds"],
    [key |-> "dynamodb", name |-> "Amazon DynamoDB", category |-> "database",
     typical_monthly |-> "5-30", free_tier |-> "25GB + 25 WCU/RCU"],
    [key |-> "s3", name |-> "Amazon S3", category |-> "storage",
     typical_monthly |-> "5-20", free_tier |-> "5GB storage"],
    [key |-> "cognito", name |-> "Amazon Cognito", category |-> "authentication",
     typical_monthly |-> "0-25", free_tier |-> "50K MAU"],
    [key |-> "api-gateway", name |-> "Amazon API Gateway", category |-> "api",
     typical_monthly |-> "5-30", free_tier |-> "1M requests (12 months)"]
  >>

Digits == "0123456789"

DigitValue(c) == (CHOOSE i \in 1..Len(Digits) : Char(Digits, i) = c) - 1

\* the index of the first occurrence of the one-character sep in s, 0 if none
FirstIndexOf(sep, s) ==
    IF Contains(sep, s)
    THEN CHOOSE i \in 1..Len(s) :
           /\ Char(s, i) = sep
           /\ \A j \in 1..(i - 1) : Char(s, j) # sep
    ELSE 0

RECURSIVE Split(_, _)
\* s.split(sep) for a one-character separator
Split(s, sep) ==
    LET i == FirstIndexOf(sep, s)
    IN  IF i = 0 THEN <<s>>
        ELSE <<SubSeq(s, 1, i - 1)>> \o Split(SubSeq(s, i + 1, Len(s)), sep)

RECURSIVE ParseDigits(_, _)
ParseDigits(s, acc) ==
    IF Len(s) = 0 THEN acc
    ELSE ParseDigits(SubSeq(s, 2, Len(s)), 10 * acc + DigitValue(Char(s, 1)))

\* float(s) for the strings of digits of typical_monthly (whole numbers)
ParseFloat(s) == ParseDigits(s, 0)

\* str() of a float holding a whole number, as f"{min_cost}" prints it: "10.0"
FloatStr(n) == ToString(n) \o ".0"

\* f"{x:.0f}" for x = twice / 2: round half to even
Format0f(twice) ==
    LET whole == twice \div 2
    IN  IF twice % 2 = 0 THEN ToString(whole)
        ELSE IF whole % 2 = 0 THEN ToString(whole) ELSE ToString(whole + 1)

\* service_id in AWS_SERVICES_DB
InServicesDB(service_id) ==
    \E i \in 1..Len(AWS_SERVICES_DB) : AWS_SERVICES_DB[i].key = service_id

ServicesDBEntry(service_id) ==
    AWS_SERVICES_DB[CHOOSE i \in 1..Len(AWS_SERVICES_DB) :
                      AWS_SERVICES_DB[i].key = service_id]

\* lines 51-55: (min_cost, max_cost) parsed from typical_monthly
ParsedRange(typical) ==
    LET parts == Split(typical, "-")
        min_cost == ParseFloat(parts[1])
    IN  [min |-> min_cost,
         max |-> IF Len(parts) > 1 THEN ParseFloat(parts[2]) ELSE min_cost * 2]

\* breakdown[name] = text: an existing key keeps its place, a new one goes last
DictSet(dict, name, text) ==
    IF \E i \in 1..Len(dict) : dict[i].name = name
    THEN [i \in 1..Len(dict) |->
            IF dict[i].name = name THEN [name |-> name, text |-> text] ELSE dict[i]]
    ELSE Append(dict, [name |-> name, text |-> text])

RECURSIVE CostLoop(_, _)
\* the loop of lines 46-59 over the remaining ids; acc = (total_min, total_max, breakdown)
CostLoop(ids, acc) ==
    IF ids = <<>> THEN acc
    ELSE IF ~InServicesDB(Head(ids)) THEN CostLoop(Tail(ids), acc)
    ELSE LET service == ServicesDBEntry(Head(ids))
             r == ParsedRange(service.typical_monthly)
         IN  CostLoop(Tail(ids),
                      [total_min |-> acc.total_min + r.min,
                       total_max |-> acc.total_max + r.max,
                       breakdown |-> DictSet(acc.breakdown, service.name,
                                             "$" \o FloatStr(r.min) \o "-"
                                                 \o FloatStr(r.max))])

\* users only reaches the log line
calculate_costs(ids, users) ==
    LET t == CostLoop(ids, [total_min |-> 0, total_max |-> 0, breakdown |-> <<>>])
    IN  [summary |-> [free_tier_viable |-> TRUE,
                      minimum |-> "$" \o Format0f(2 * t.total_min),
                      typical |-> "$" \o Format0f(t.total_min + t.total_max),
                      maximum |-> "$" \o Format0f(2 * t.total_max)],
         breakdown |-> t.breakdown]

(***************************************************************************)
(* services/guide_generator.py                                             *)
(***************************************************************************)
\* the upper-case letter of each lower-case letter
ToUpper ==
    [c \in LowerSet |->
        Char(UpperChars, CHOOSE i \in 1..Len(LowerChars) : Char(LowerChars, i) = c)]

\* str.upper() of one ASCII character
UpperChar(c) == IF c \in LowerSet THEN ToUpper[c] ELSE c

IsLetter(c) == c \in UpperSet \/ c \in LowerSet

RECURSIVE TitleFrom(_, _)
TitleFrom(s, after_letter) ==
    IF Len(s) = 0 THEN ""
    ELSE LET c == Char(s, 1)
         IN  (IF after_letter THEN LowerChar(c) ELSE UpperChar(c))
             \o TitleFrom(SubSeq(s, 2, Len(s)), IsLetter(c))

\* str.title()
Title(s) == TitleFrom(s, FALSE)

\* any(word in s.lower() for s in services)
AnyContains(word, names) == \E i \in 1..Len(names) : Contains(word, Lower(names[i]))

\* the weight of one service in complexity_score (lines 23-28)
ComplexityWeight(name) ==
    IF Contains("cognito", Lower(name)) THEN 2
    ELSE IF Contains("rds", Lower(name)) THEN 3
    ELSE IF Contains("dynamodb", Lower(name)) THEN 1
    ELSE 0

RECURSIVE ComplexityScore(_)
ComplexityScore(names) ==
    IF names = <<>> THEN 0
    ELSE ComplexityWeight(Head(names)) + ComplexityScore(Tail(names))

Difficulty(names) ==
    LET complexity_score == ComplexityScore(names)
    IN  IF complexity_score < 2 THEN "Beginner"
        ELSE IF complexity_score < 4 THEN "Intermediate"
        ELSE "Advanced"

\* CostBucket without the middle tier of lines 36-38
CostBucket_TwoTiers(users) ==
    IF users < 1000
    THEN [cost_range |-> "$0-50", tier_message |-> "Can run mostly on AWS Free Tier"]
    ELSE [cost_range |-> "$200-1000", tier_message |-> "Production-grade costs"]

\* lines 33-41
CostBucket(users) ==
    IF users < 1000
    THEN [cost_range |-> "$0-50", tier_message |-> "Can run mostly on AWS Free Tier"]
    ELSE IF users < 10000
    THEN [cost_range |-> "$50-200", tier_message |-> "Some Free Tier benefits available"]
    ELSE [cost_range |-> "$200-1000", tier_message |-> "Production-grade costs"]

\* Phase2Tasks without the S3 test of lines 125-126
Phase2Tasks_NoS3(names) ==
    (IF AnyContains("cognito", names) THEN <<"Set up Cognito user pool">> ELSE <<>>)
    \o (IF AnyContains("dynamodb", names) THEN <<"Create DynamoDB tables">>
        ELSE IF AnyContains("rds", names) THEN <<"Set up RDS database">>
        ELSE <<>>)

\* lines 115-126
Phase2Tasks(names) ==
    (IF AnyContains("cognito", names) THEN <<"Set up Cognito user pool">> ELSE <<>>)
    \o (IF AnyContains("dynamodb", names) THEN <<"Create DynamoDB tables">>
        ELSE IF AnyContains("rds", names) THEN <<"Set up RDS database">>
        ELSE <<>>)
    \o (IF AnyContains("s3", names) THEN <<"Create S3 buckets with proper policies">>
        ELSE <<>>)

\* Phase3Tasks without the API Gateway test of line 146
Phase3Tasks_LambdaOnly(names) ==
    IF AnyContains("lambda", names)
    THEN <<"Create Lambda functions", "Set up environment variables",
           "Configure IAM roles">>
    ELSE <<>>

\* lines 137-151
Phase3Tasks(names) ==
    (IF AnyContains("lambda", names)
     THEN <<"Create Lambda functions", "Set up environment variables",
            "Configure IAM roles">>
     ELSE <<>>)
    \o (IF AnyContains("apigateway", names) \/ AnyContains("api gateway", names)
        THEN <<"Create API Gateway", "Configure endpoints", "Set up CORS">>
        ELSE <<>>)

generate_implementation_phases(names, project_type, users) ==
    LET phase2_tasks == Phase2Tasks(names)
        phase3_tasks == Phase3Tasks(names)
    IN
    <<[name |-> "Foundation Setup",
       duration |-> "2-3 hours",
       description |-> "Set up AWS account and basic infrastructure",
       steps |-> <<"Create AWS account or use existing", "Set up IAM users with MFA",
                   "Configure AWS CLI", "Set up billing alerts">>]>>
    \o (IF phase2_tasks # <<>>
        THEN <<[name |-> "Core Infrastructure",
                duration |-> "4-6 hours",
                description |-> "Set up database, storage, and authentication",
                steps |-> phase2_tasks]>>
        ELSE <<>>)
    \o (IF phase3_tasks # <<>>
        THEN <<[name |-> "Compute & API Layer",
                duration |-> "6-8 hours",
                description |-> "Implement business logic and API endpoints",
                steps |-> phase3_tasks]>>
        ELSE <<>>)
    \o <<[name |-> "Integration & Testing",
          duration |-> "4-6 hours",
          description |-> "Connect all services and test end-to-end",
          steps |-> <<"Connect Lambda to database", "Test API endpoints",
                      "Set up CloudWatch logging", "Configure error handling",
                      "Test authentication flow">>]>>
    \o (IF users > 1000
        THEN <<[name |-> "Performance Optimization",
                duration |-> "3-4 hours",
                description |-> "Optimize for scale and performance",
                steps |-> <<"Enable CloudFront CDN", "Configure caching",
                            "Set up auto-scaling", "Optimize database queries",
                            "Enable X-Ray tracing">>]>>
        ELSE <<>>)
    \o <<[name |-> "Production Deployment",
          duration |-> "2-3 hours",
          description |-> "Deploy to production environment",
          steps |-> <<"Set up CI/CD pipeline", "Configure monitoring dashboards",
                      "Deploy to production", "Run smoke tests",
                      "Monitor for 24 hours">>]>>

generate_guide(names, c, users) ==
    LET project_type == c.primary
        service_count == Len(names)
        total_hours == 15 + service_count * 5
        days == Max(3, total_hours \div 8)
        difficulty == Difficulty(names)
        bucket == CostBucket(users)
    IN  [format |-> "dynamic_personalized",
         sections |-> Len(names) + 6,
         project_context |->
             [type |-> project_type,
              estimated_users |-> users,
              services_count |-> service_count,
              complexity |-> difficulty],
         introduction |->
             [title |-> "Building Your " \o Title(project_type) \o " Platform on AWS",
              overview |-> "Personalized implementation guide for a " \o project_type
                           \o " application serving " \o Thousands(users)
                           \o " users using " \o ToString(service_count)
                           \o " AWS services.",
              timeline |-> ToString(total_hours) \o "-" \o ToString(total_hours + 10)
                           \o " hours over " \o ToString(days) \o "-"
                           \o ToString(days + 2) \o " days",
              difficulty |-> difficulty,
              estimated_cost |-> bucket.cost_range \o "/month",
              cost_note |-> bucket.tier_message],
         prerequisites |->
             <<"AWS account with admin access", "AWS CLI installed and configured",
               "Basic knowledge of cloud architecture",
               "Understanding of " \o project_type \o " applications">>,
         architecture |->
             [pattern |-> IF AnyContains("lambda", names) THEN "Serverless"
                          ELSE "Traditional",
              services_count |-> service_count,
              scalability |-> "Designed for " \o Thousands(users) \o " users",
              services |-> names],
         next_steps |->
             <<"1. Set up AWS account with budget alert for " \o bucket.cost_range,
               "2. Review prerequisites and gather tools",
               "3. Follow implementation phases in order",
               "4. Test with " \o ToString(Min(100, users \div 10))
                   \o " concurrent users",
               "5. Monitor CloudWatch metrics closely",
               "6. Scale gradually based on actual usage">>,
         phases |-> generate_implementation_phases(names, project_type, users)]

(***************************************************************************)
(* models/validated_request.py: the length limits of AnalysisRequest        *)
(***************************************************************************)
MinDescriptionLength == 10

MaxDescriptionLength == 5000

MinEstimatedUsers == 1

MaxEstimatedUsers == 100000000

\* budget: Literal["low", "medium", "high"]
Budgets == {"low", "medium", "high"}

\* the characters str.strip() and str.split() treat as white space
Whitespace == {" ", "\t", "\n", "\r"}

RECURSIVE FirstKept(_, _, _)
\* the first index in lo..hi of a character str.strip() keeps, 0 if there is none
FirstKept(v, lo, hi) ==
    IF lo > hi THEN 0
    ELSE IF lo = hi THEN IF Char(v, lo) \notin Whitespace THEN lo ELSE 0
    ELSE LET mid == (lo + hi) \div 2
             first == FirstKept(v, lo, mid)
         IN  IF first # 0 THEN first ELSE FirstKept(v, mid + 1, hi)

RECURSIVE LastKept(_, _, _)
\* the last index in lo..hi of a character str.strip() keeps, 0 if there is none
LastKept(v, lo, hi) ==
    IF lo > hi THEN 0
    ELSE IF lo = hi THEN IF Char(v, lo) \notin Whitespace THEN lo ELSE 0
    ELSE LET mid == (lo + hi) \div 2
             last == LastKept(v, mid + 1, hi)
         IN  IF last # 0 THEN last ELSE LastKept(v, lo, mid)

\* v.strip()
Strip(v) ==
    LET first == FirstKept(v, 1, Len(v))
    IN  IF first = 0 THEN "" ELSE SubSeq(v, first, LastKept(v, 1, Len(v)))

\* html.escape on one character (quote=True)
EscapeChar(c) ==
    CASE c = "&" -> "&amp;"
      [] c = "<" -> "&lt;"
      [] c = ">" -> "&gt;"
      [] c = "\"" -> "&quot;"
      [] c = "'" -> "&#x27;"
      [] OTHER -> c

RECURSIVE Escape(_)
\* html.escape(v)
Escape(v) ==
    IF Len(v) = 0 THEN ""
    ELSE IF Len(v) = 1 THEN EscapeChar(v)
    ELSE LET h == Len(v) \div 2
         IN  Escape(SubSeq(v, 1, h)) \o Escape(SubSeq(v, h + 1, Len(v)))

RECURSIVE CollapseRange(_, _, _)
\* what ' '.join(v.split()) keeps of v[lo..hi], v without outer white space:
\* every other character, and one space for the first character of a
\* white-space run
CollapseRange(v, lo, hi) ==
    IF lo > hi THEN ""
    ELSE IF lo = hi
    THEN IF Char(v, lo) \notin Whitespace THEN Char(v, lo)
         ELSE IF Char(v, lo - 1) \notin Whitespace THEN " "
         ELSE ""
    ELSE LET mid == (lo + hi) \div 2
         IN  CollapseRange(v, lo, mid) \o CollapseRange(v, mid + 1, hi)

\* ' '.join(v.split())
JoinSplit(v) == LET w == Strip(v) IN CollapseRange(w, 1, Len(w))

\* the body of sanitize_description, up to its length test
Sanitized(v) == JoinSplit(Escape(Strip(v)))

\* the Field constraints on description, applied to the string as sent
DescriptionFieldOk(v) ==
    /\ Len(v) >= MinDescriptionLength
    /\ Len(v) <= MaxDescriptionLength

\* sanitize_description raises ValueError("Description too short")
TooShortAfterSanitizing(v) == Len(Strip(Sanitized(v))) < 10

\* AnalysisRequest(description=v, estimated_users=users, budget=b) validates
RequestAccepted(v, users, b) ==
    /\ DescriptionFieldOk(v)
    /\ ~TooShortAfterSanitizing(v)
    /\ users >= MinEstimatedUsers
    /\ users <= MaxEstimatedUsers
    /\ b \in Budgets

\* the description the validated request stores
sanitize_description(v) == Sanitized(v)

(***************************************************************************)
(* security/auth.py                                                        *)
(***************************************************************************)
\* VALID_API_KEYS: the default key and a second configured key
VALID_API_KEYS == {"demo-key-12345", "second-key"}

\* RATE_LIMIT_REQUESTS (100 unless configured)
RATE_LIMIT_REQUESTS == 2

\* RATE_LIMIT_WINDOW, in seconds (3600 unless configured)
RATE_LIMIT_WINDOW == 3

\* what the dependency hands on: an identity, or the HTTPException it raises
Admitted(identity) == [status |-> 200, api_key |-> identity, detail |-> ""]

Refused(status_code, text) == [status |-> status_code, api_key |-> "", detail |-> text]

\* verify_api_key answering a missing key like an unknown one (403 for 401)
verify_api_key_Missing403(header, allow) ==
    IF header = ""
    THEN IF allow THEN Admitted("anonymous") ELSE Refused(403, "Invalid API key")
    ELSE IF header \notin VALID_API_KEYS THEN Refused(403, "Invalid API key")
    ELSE Admitted(header)

\* verify_api_key(api_key): header is the X-API-Key value ("" when absent),
\* allow is ALLOW_ANONYMOUS
verify_api_key(header, allow) ==
    IF header = ""
    THEN IF allow THEN Admitted("anonymous") ELSE Refused(401, "API key required")
    ELSE IF header \notin VALID_API_KEYS THEN Refused(403, "Invalid API key")
    ELSE Admitted(header)

\* Pruned keeping a timestamp that is exactly RATE_LIMIT_WINDOW old
Pruned_ClosedWindow(timestamps, time) ==
    SelectSeq(timestamps, LAMBDA r : r >= time - RATE_LIMIT_WINDOW)

\* [r for r in timestamps if r > window_start]
Pruned(timestamps, time) ==
    SelectSeq(timestamps, LAMBDA r : r > time - RATE_LIMIT_WINDOW)

RateLimitText == "Rate limit exceeded. Try again later."

\* check_rate_limit appending the timestamp before the test of line 43
check_rate_limit_RecordsRejected(storage, key, time) ==
    LET requests == Pruned(storage[key], time)
    IN  [storage |-> [storage EXCEPT ![key] = Append(requests, time)],
         raised |-> Len(requests) >= RATE_LIMIT_REQUESTS]

\* check_rate_limit(key) at time.time() = time: the storage it leaves and
\* whether it raises HTTPException(429)
check_rate_limit(storage, key, time) ==
    LET requests == Pruned(storage[key], time)
    IN  IF Len(requests) >= RATE_LIMIT_REQUESTS
        THEN [storage |-> [storage EXCEPT ![key] = requests], raised |-> TRUE]
        ELSE [storage |-> [storage EXCEPT ![key] = Append(requests, time)],
              raised |-> FALSE]

\* str(e) of an HTTPException built from keywords: empty, or "<status>: <detail>",
\* by the version of the installed library
HTTPExceptionStr(status_code, text) == {"", ToString(status_code) \o ": " \o text}

(***************************************************************************)
(* The explored inputs.                                                    *)
(***************************************************************************)
Vocabulary == {"store", "Shop", "website", "login", "API", "hello"}

RECURSIVE JoinWords(_)
\* " ".join(words)
JoinWords(words) ==
    IF words = <<>> THEN ""
    ELSE IF Len(words) = 1 THEN words[1]
    ELSE words[1] \o " " \o JoinWords(Tail(words))

SeqsUpTo(S, n) == UNION {[1..k -> S] : k \in 0..n}

ExampleStore ==
    "I want to build an online store where customers can browse products and checkout with payment"

ExampleDescriptions ==
    {ExampleStore,
     "ecommerce store shop product cart checkout payment",
     "shop shop shop and a shopping cart",
     "Marketplace platform for sellers, buyers and vendors with a REST API",
     "web store seller feed mobile api chat file login metrics",
     "Realtime CHAT with photo upload, login and push notifications"}

Descriptions == {JoinWords(w) : w \in SeqsUpTo(Vocabulary, MaxWords)} \cup ExampleDescriptions

\* the descriptions AnalysisRequest lets through to a handler
ValidDescriptions ==
    {d \in Descriptions : Len(d) >= MinDescriptionLength /\ Len(d) <= MaxDescriptionLength}

UserCounts == {1, 500, 999, 1000, 1001, 5000, 10000, 10001, 50000, 100000}

\* the user counts AnalysisRequest lets through to a handler
ValidUserCounts ==
    {u \in UserCounts : u >= MinEstimatedUsers /\ u <= MaxEstimatedUsers}

KeywordCategories == {USE_CASE_KEYWORDS[i].category : i \in 1..Len(USE_CASE_KEYWORDS)}

PrimaryInputs == KeywordCategories \cup CatalogCategories \cup {"unknown"}

FeatureInputs ==
    {"ecommerce", "marketplace", "real_time", "authentication", "file_storage"}

ClassificationInputs ==
    {[primary |-> p, confidence |-> ConfidenceScale \div 2, features |-> f] :
        p \in PrimaryInputs, f \in SeqsUpTo(FeatureInputs, MaxFeatures)}

NameInputs ==
    {"Amazon Cognito", "Amazon DynamoDB", "Amazon RDS", "Amazon S3", "AWS Lambda",
     "Amazon API Gateway", "Amazon SES", "lambda", "dynamodb"}

NameLists == SeqsUpTo(NameInputs, MaxNames)

GuideClassifications ==
    {[primary |-> p, confidence |-> ConfidenceScale \div 2, features |-> <<p>>] :
        p \in {"web_application"}}

\* the threads that may be inside check_rate_limit at once
Threads == 1..NumThreads

RECURSIVE Repeat(_, _)
\* c * n
Repeat(c, n) ==
    IF n = 0 THEN ""
    ELSE IF n = 1 THEN c
    ELSE LET h == Repeat(c, n \div 2)
         IN  IF n % 2 = 0 THEN h \o h ELSE h \o h \o c

\* the descriptions a client sends
RawDescriptions ==
    {"",
     "short",
     "Online store",
     "  Online    store  ",
     "a\tb\n\nc    d e f g",
     "12345678      ",
     "ab < cd",
     "<b>Shop</b> & \"deli\" 'bar'",
     "Tom & Jerry's <shop>",
     Repeat("a", MaxDescriptionLength),
     Repeat("a", MaxDescriptionLength + 1),
     Repeat("ab & cd ", MaxDescriptionLength \div 8),
     Repeat("&", MaxDescriptionLength \div 5 + 1)}

RawUserCounts ==
    {-1, 0, MinEstimatedUsers, 5000, MaxEstimatedUsers, MaxEstimatedUsers + 1}

RawBudgets == Budgets \cup {"", "free"}

\* the requests a client sends: every description with a valid user count and
\* budget, and the descriptions of ordinary length with every user count and budget
RawRequests ==
    {[description |-> v, estimated_users |-> 5000, budget |-> "medium"] :
        v \in RawDescriptions}
    \cup {[description |-> v, estimated_users |-> users, budget |-> b] :
            v \in {w \in RawDescriptions : Len(w) < 100},
            users \in RawUserCounts, b \in RawBudgets}

\* the keys handed to get_cost_estimate: those of base_costs and others
EstimateKeys ==
    {base_costs[i].key : i \in 1..Len(base_costs)} \cup {"rds", "unknown", ""}

EstimateUserCounts == UserCounts \cup {-1, 0, 99999, MaxEstimatedUsers}

(***************************************************************************)
(* State: the last call and what it returned.                              *)
(***************************************************************************)
NoClassification == [primary |-> "", confidence |-> 0, features |-> <<>>]

NoCosts ==
    [summary |-> [free_tier_viable |-> FALSE, minimum |-> "", typical |-> "",
                  maximum |-> ""],
     breakdown |-> <<>>]

NoGuide == generate_guide(<<>>, NoClassification, 0)

\* the state after import, whatever ALLOW_ANONYMOUS is
InitState ==
    /\ op = "none"
    /\ description = ""
    /\ estimated_users = 0
    /\ classification = NoClassification
    /\ services = <<>>
    /\ service_names = <<>>
    /\ cost_analysis = NoCosts
    /\ guide = NoGuide
    /\ raw_description = ""
    /\ budget = ""
    /\ validation = "none"
    /\ estimate_key = ""
    /\ cost_estimate = ""
    /\ x_api_key = ""
    /\ api_key = ""
    /\ status = 0
    /\ detail = ""
    /\ rate_limit_storage = [k \in VALID_API_KEYS |-> <<>>]
    /\ now = 0
    /\ accepted = [k \in VALID_API_KEYS |-> <<>>]
    /\ t_pc = [t \in Threads |-> "idle"]
    /\ t_now = [t \in Threads |-> 0]
    /\ t_requests = [t \in Threads |-> <<>>]
    /\ owner = 0

\* ALLOW_ANONYMOUS unset: "true"
Init == InitState /\ allow_anonymous = TRUE

\* a direct call classify_use_case(d)
ClassifyCall ==
    /\ op = "none"
    /\ \E d \in Descriptions :
        /\ op' = "classify_use_case"
        /\ description' = d
        /\ estimated_users' = 0
        /\ classification' = classify_use_case(d)
        /\ services' = <<>>
        /\ service_names' = <<>>
        /\ cost_analysis' = NoCosts
        /\ guide' = NoGuide
        /\ UNCHANGED <<call_vars, http_vars, limiter_vars, thread_vars>>

\* a direct call recommend_services(c, users)
RecommendCall ==
    /\ op = "none"
    /\ \E c \in ClassificationInputs, users \in UserCounts :
        /\ op' = "recommend_services"
        /\ description' = ""
        /\ estimated_users' = users
        /\ classification' = c
        /\ services' = recommend_services(c, users)
        /\ service_names' = <<>>
        /\ cost_analysis' = NoCosts
        /\ guide' = NoGuide
        /\ UNCHANGED <<call_vars, http_vars, limiter_vars, thread_vars>>

\* a direct call calculate_costs(ids, users)
CostsCall ==
    /\ op = "none"
    /\ \E ids \in NameLists, users \in UserCounts :
        /\ op' = "calculate_costs"
        /\ description' = ""
        /\ estimated_users' = users
        /\ classification' = NoClassification
        /\ services' = <<>>
        /\ service_names' = ids
        /\ cost_analysis' = calculate_costs(ids, users)
        /\ guide' = NoGuide
        /\ UNCHANGED <<call_vars, http_vars, limiter_vars, thread_vars>>

\* a direct call generate_guide(names, c, users)
GuideCall ==
    /\ op = "none"
    /\ \E names \in NameLists, c \in GuideClassifications, users \in UserCounts :
        /\ op' = "generate_guide"
        /\ description' = ""
        /\ estimated_users' = users
        /\ classification' = c
        /\ services' = <<>>
        /\ service_names' = names
        /\ cost_analysis' = NoCosts
        /\ guide' = generate_guide(names, c, users)
        /\ UNCHANGED <<call_vars, http_vars, limiter_vars, thread_vars>>

\* the pipeline variables of a call that runs no pipeline stage
NoPipeline ==
    /\ classification' = NoClassification
    /\ services' = <<>>
    /\ service_names' = <<>>
    /\ cost_analysis' = NoCosts
    /\ guide' = NoGuide

\* AnalysisRequest(**r)
ValidateCall ==
    /\ op = "none"
    /\ \E r \in RawRequests :
        LET ok == RequestAccepted(r.description, r.estimated_users, r.budget)
        IN  /\ op' = "AnalysisRequest"
            /\ raw_description' = r.description
            /\ estimated_users' = r.estimated_users
            /\ budget' = r.budget
            /\ validation' = IF ok THEN "accepted" ELSE "rejected"
            /\ description' = IF ok THEN sanitize_description(r.description) ELSE ""
            /\ NoPipeline
            /\ UNCHANGED <<estimate_key, cost_estimate, http_vars, limiter_vars,
                           thread_vars>>

\* a direct call get_cost_estimate(key, users)
CostEstimateCall ==
    /\ op = "none"
    /\ \E key \in EstimateKeys, users \in EstimateUserCounts :
        /\ op' = "get_cost_estimate"
        /\ estimate_key' = key
        /\ estimated_users' = users
        /\ cost_estimate' = get_cost_estimate(key, users)
        /\ description' = ""
        /\ NoPipeline
        /\ UNCHANGED <<raw_description, budget, validation, http_vars, limiter_vars,
                       thread_vars>>

\* service_names = [s["name"] for s in services]
ServiceNames(svcs) == [i \in 1..Len(svcs) |-> svcs[i].name]

\* the pipeline of POST /api/analyze (handler.py lines 54-58) on a validated request
Analyze ==
    /\ op = "none"
    /\ \E d \in ValidDescriptions, users \in ValidUserCounts :
        LET c == classify_use_case(d)
            svcs == recommend_services(c, users)
            names == ServiceNames(svcs)
        IN  /\ op' = "analyze"
            /\ description' = d
            /\ estimated_users' = users
            /\ classification' = c
            /\ services' = svcs
            /\ service_names' = names
            /\ cost_analysis' = calculate_costs(names, users)
            /\ guide' = generate_guide(names, c, users)
            /\ UNCHANGED <<call_vars, http_vars, limiter_vars, thread_vars>>

\* the call returns: its arguments and results are dropped
Return ==
    /\ op # "none"
    /\ op' = "none"
    /\ description' = ""
    /\ estimated_users' = 0
    /\ classification' = NoClassification
    /\ services' = <<>>
    /\ service_names' = <<>>
    /\ cost_analysis' = NoCosts
    /\ guide' = NoGuide
    /\ raw_description' = ""
    /\ budget' = ""
    /\ validation' = "none"
    /\ estimate_key' = ""
    /\ cost_estimate' = ""
    /\ x_api_key' = ""
    /\ api_key' = ""
    /\ status' = 0
    /\ detail' = ""
    /\ UNCHANGED <<allow_anonymous, limiter_vars, thread_vars>>

\* one call at a time: a call starts only when no call is in progress
Next ==
    \/ ClassifyCall
    \/ RecommendCall
    \/ CostsCall
    \/ GuideCall
    \/ Analyze
    \/ ValidateCall
    \/ CostEstimateCall
    \/ Return

Spec == Init /\ [][Next]_vars

(***************************************************************************)
(* The rate limiter called directly, with a clock.                         *)
(***************************************************************************)
\* time.time() moves on
Tick ==
    /\ now < MaxTime
    /\ now' = now + 1
    /\ UNCHANGED <<pipeline_vars, call_vars, http_vars, rate_limit_storage, accepted,
                   thread_vars>>

\* a direct call check_rate_limit(key): status 429 when it raises
CheckRateLimitCall ==
    /\ op = "none"
    /\ \E key \in VALID_API_KEYS :
        LET limit == check_rate_limit(rate_limit_storage, key, now)
        IN  /\ op' = "check_rate_limit"
            /\ api_key' = key
            /\ rate_limit_storage' = limit.storage
            /\ status' = IF limit.raised THEN 429 ELSE 0
            /\ detail' = IF limit.raised THEN RateLimitText ELSE ""
            /\ accepted' = IF limit.raised THEN accepted
                           ELSE [accepted EXCEPT ![key] = Append(@, now)]
            /\ UNCHANGED <<description, estimated_users, classification, services,
                           service_names, cost_analysis, guide, call_vars,
                           allow_anonymous, x_api_key, now, thread_vars>>

LimiterNext ==
    \/ Tick
    \/ CheckRateLimitCall
    \/ Return

SpecLimiter == Init /\ [][LimiterNext]_vars

(***************************************************************************)
(* handler.py: the three POST operations.                                  *)
(***************************************************************************)
\* the stages inside the try block of each operation, after the rate limit check
EndpointStages(endpoint) ==
    CASE endpoint = "POST /api/analyze" ->
            <<"classify_use_case", "recommend_services", "calculate_costs",
              "generate_guide">>
      [] endpoint = "POST /api/iac" ->
            <<"classify_use_case", "recommend_services", "generate_iac">>
      [] endpoint = "POST /api/narrative" ->
            <<"classify_use_case", "recommend_services", "calculate_costs",
              "generate_guide", "generate_narrative_analysis">>

\* no stage raises
NoFault == [stage |-> "", message |-> ""]

\* stage is a stage of the operation and returns before any stage raises
Completes(endpoint, fault, stage) ==
    LET stages == EndpointStages(endpoint)
    IN  \E i \in 1..Len(stages) :
            /\ stages[i] = stage
            /\ \A j \in 1..i : stages[j] # fault.stage

\* only "POST /api/analyze" calls check_rate_limit, and not for "anonymous"
ChecksRateLimit(endpoint, identity) ==
    endpoint = "POST /api/analyze" /\ identity # "anonymous"

\* the validated bodies the clients send
Bodies ==
    {[description |-> ExampleStore, estimated_users |-> 5000],
     [description |-> "hello website", estimated_users |-> 50000]}

\* StageResults with a recommender that counts the requests accepted so far
\* into the user count
StageResults_CountingRequests ==
    [b \in Bodies |->
        LET seen == Len(accepted["demo-key-12345"]) * 100000
            c == classify_use_case(b.description)
            svcs == recommend_services(c, b.estimated_users + seen)
            names == ServiceNames(svcs)
        IN  [classification |-> c,
             services |-> svcs,
             service_names |-> names,
             cost_analysis |-> calculate_costs(names, b.estimated_users),
             guide |-> generate_guide(names, c, b.estimated_users)]]

\* what the stages return for each body (the stages are pure functions)
StageResults ==
    [b \in Bodies |->
        LET c == classify_use_case(b.description)
            svcs == recommend_services(c, b.estimated_users)
            names == ServiceNames(svcs)
        IN  [classification |-> c,
             services |-> svcs,
             service_names |-> names,
             cost_analysis |-> calculate_costs(names, b.estimated_users),
             guide |-> generate_guide(names, c, b.estimated_users)]]

\* one POST request with header h and validated body b, during which the
\* stage fault.stage raises Exception(fault.message)
Post(endpoint, h, b, fault) ==
    LET auth == verify_api_key(h, allow_anonymous)
        checked == auth.status = 200 /\ ChecksRateLimit(endpoint, auth.api_key)
        limit == check_rate_limit(rate_limit_storage, auth.api_key, now)
        limited == checked /\ limit.raised
        runs(stage) ==
            auth.status = 200 /\ ~limited /\ Completes(endpoint, fault, stage)
        result == StageResults[b]
    IN  /\ op' = endpoint
        /\ x_api_key' = h
        /\ api_key' = auth.api_key
        /\ description' = b.description
        /\ estimated_users' = b.estimated_users
        /\ rate_limit_storage' = IF checked THEN limit.storage ELSE rate_limit_storage
        /\ accepted' = IF checked /\ ~limit.raised
                       THEN [accepted EXCEPT ![auth.api_key] = Append(@, now)]
                       ELSE accepted
        /\ classification' = IF runs("classify_use_case") THEN result.classification
                             ELSE NoClassification
        /\ services' = IF runs("recommend_services") THEN result.services ELSE <<>>
        /\ service_names' = IF runs("calculate_costs") THEN result.service_names ELSE <<>>
        /\ cost_analysis' = IF runs("calculate_costs") THEN result.cost_analysis
                            ELSE NoCosts
        /\ guide' = IF runs("generate_guide") THEN result.guide ELSE NoGuide
        /\ IF auth.status # 200
           THEN status' = auth.status /\ detail' = auth.detail
           ELSE IF limited
           THEN status' = 500 /\ detail' \in HTTPExceptionStr(429, RateLimitText)
           ELSE IF fault.stage \in {EndpointStages(endpoint)[i] :
                                       i \in 1..Len(EndpointStages(endpoint))}
           THEN status' = 500 /\ detail' = fault.message
           ELSE status' = 200 /\ detail' = ""
        /\ UNCHANGED <<call_vars, allow_anonymous, now, thread_vars>>

\* the X-API-Key headers the clients send
Headers == {"", "demo-key-12345", "wrong-key"}

\* the exceptions a stage may raise
Faults(endpoint) ==
    {NoFault} \cup
    {[stage |-> EndpointStages(endpoint)[i], message |-> "'cloudfront'"] :
        i \in 1..Len(EndpointStages(endpoint))}

\* analyze (lines 47-77)
PostAnalyze ==
    /\ op = "none"
    /\ \E h \in Headers, b \in Bodies, fault \in Faults("POST /api/analyze") :
        Post("POST /api/analyze", h, b, fault)

\* generate_infrastructure_code (lines 79-101)
PostIac ==
    /\ op = "none"
    /\ \E h \in Headers, b \in Bodies, fault \in Faults("POST /api/iac") :
        Post("POST /api/iac", h, b, fault)

\* generate_narrative (lines 103-138)
PostNarrative ==
    /\ op = "none"
    /\ \E h \in Headers, b \in Bodies, fault \in Faults("POST /api/narrative") :
        Post("POST /api/narrative", h, b, fault)

ApiInit == InitState /\ allow_anonymous \in BOOLEAN

ApiNext ==
    \/ Tick
    \/ PostAnalyze
    \/ PostIac
    \/ PostNarrative
    \/ Return

SpecApi == ApiInit /\ [][ApiNext]_vars

(***************************************************************************)
(* check_rate_limit run by several threads for one key, statement by       *)
(* statement.  Each call builds its own list object; owner is the thread   *)
(* whose list object rate_limit_storage[key] currently is.                 *)
(***************************************************************************)
RaceKey == "demo-key-12345"

\* lines 37-40: read the clock, read the stored list and build the pruned list
Prune ==
    \E t \in Threads :
        /\ t_pc[t] = "idle"
        /\ Len(accepted[RaceKey]) < MaxAccepted
        /\ t_pc' = [t_pc EXCEPT ![t] = "store"]
        /\ t_now' = [t_now EXCEPT ![t] = now]
        /\ t_requests' = [t_requests EXCEPT ![t] = Pruned(rate_limit_storage[RaceKey], now)]
        /\ owner' = IF owner = t THEN 0 ELSE owner
        /\ UNCHANGED <<pipeline_vars, call_vars, http_vars, limiter_vars>>

\* line 41: rate_limit_storage[api_key] = requests
Store ==
    \E t \in Threads :
        /\ t_pc[t] = "store"
        /\ t_pc' = [t_pc EXCEPT ![t] = "compare"]
        /\ rate_limit_storage' = [rate_limit_storage EXCEPT ![RaceKey] = t_requests[t]]
        /\ owner' = t
        /\ UNCHANGED <<pipeline_vars, call_vars, http_vars, now, accepted, t_now,
                       t_requests>>

\* lines 43-47: raise HTTPException(429) at the limit, else go on
Compare ==
    \E t \in Threads :
        /\ t_pc[t] = "compare"
        /\ IF Len(t_requests[t]) >= RATE_LIMIT_REQUESTS
           THEN /\ t_pc' = [t_pc EXCEPT ![t] = "idle"]
                /\ t_now' = [t_now EXCEPT ![t] = 0]
                /\ t_requests' = [t_requests EXCEPT ![t] = <<>>]
                /\ owner' = IF owner = t THEN 0 ELSE owner
           ELSE /\ t_pc' = [t_pc EXCEPT ![t] = "append"]
                /\ UNCHANGED <<t_now, t_requests, owner>>
        /\ UNCHANGED <<pipeline_vars, call_vars, http_vars, limiter_vars>>

\* line 49: requests.append(now), on the thread's own list object, and return
AppendNow ==
    \E t \in Threads :
        /\ t_pc[t] = "append"
        /\ t_pc' = [t_pc EXCEPT ![t] = "idle"]
        /\ rate_limit_storage' =
              IF owner = t
              THEN [rate_limit_storage EXCEPT ![RaceKey] = Append(@, t_now[t])]
              ELSE rate_limit_storage
        /\ accepted' = [accepted EXCEPT ![RaceKey] = Append(@, t_now[t])]
        /\ t_now' = [t_now EXCEPT ![t] = 0]
        /\ t_requests' = [t_requests EXCEPT ![t] = <<>>]
        /\ owner' = IF owner = t THEN 0 ELSE owner
        /\ UNCHANGED <<pipeline_vars, call_vars, http_vars, now>>

RaceNext ==
    \/ Tick
    \/ Prune
    \/ Store
    \/ Compare
    \/ AppendNow

SpecRace == Init /\ [][RaceNext]_vars

(***************************************************************************)
(* Properties.                                                             *)
(***************************************************************************)
Classified == op \in {"classify_use_case", "analyze"}

Recommended == op \in {"recommend_services", "analyze"}

Guided == op \in {"generate_guide", "analyze"}

\* no keyword of USE_CASE_KEYWORDS occurs in the lower-cased description
NoKeyword(d) ==
    \A i \in 1..Len(USE_CASE_KEYWORDS) :
        \A j \in 1..Len(USE_CASE_KEYWORDS[i].keywords) :
            ~Contains(USE_CASE_KEYWORDS[i].keywords[j], Lower(d))

\* C1: a description with no keyword (the empty one included) is classified as
\* web_application with confidence exactly 0.5 and features = [web_application].
C1_Fallback ==
    (Classified /\ NoKeyword(description)) =>
        /\ classification.primary = "web_application"
        /\ 2 * classification.confidence = ConfidenceScale
        /\ classification.features = <<"web_application">>

C1_Witness ==
    /\ op = "classify_use_case"
    /\ description # ""
    /\ NoKeyword(description)
    /\ classification.features = <<"web_application">>

\* C2: every classification has 0 <= confidence <= 1 and at most 4 features.
C2_ConfidenceAndFeaturesBounded ==
    Classified =>
        /\ classification.confidence >= 0
        /\ classification.confidence <= ConfidenceScale
        /\ Len(classification.features) <= 4

\* more than four categories score, and the features list is cut to four
C2_Witness ==
    /\ op = "classify_use_case"
    /\ Cardinality({i \in 1..Len(USE_CASE_KEYWORDS) :
           KeywordScore(USE_CASE_KEYWORDS[i].keywords, Lower(description)) > 0}) > 4
    /\ Len(classification.features) = 4

NoRepeat(seq) == \A i, j \in 1..Len(seq) : seq[i] = seq[j] => i = j

\* C3: the list returned by recommend_services has one entry per collected
\* service key, no key occurs twice and no display name occurs twice.
C3_NoDuplicateServices ==
    Recommended =>
        LET collected == CollectedServices(classification, estimated_users)
        IN  /\ Len(services) = Len(collected)
            /\ NoRepeat([i \in 1..Len(collected) |-> collected[i].key])
            /\ NoRepeat([i \in 1..Len(services) |-> services[i].name])

\* a non-primary feature of the catalog shares services with the primary and
\* adds others
C3_Witness ==
    /\ op = "recommend_services"
    /\ \E i \in 1..Len(classification.features) :
          LET f == classification.features[i]
          IN  /\ f # classification.primary
              /\ f \in CatalogCategories
              /\ \E k \in 1..Len(CatalogOf(f)) :
                    HasKey(PrimaryServices(classification.primary), CatalogOf(f)[k].key)
    /\ Len(services) > Len(PrimaryServices(classification.primary))

CdnEntries(svcs) == {i \in 1..Len(svcs) : svcs[i].category = "cdn"}

\* C4: for estimated_users > 10000 the list holds exactly one cdn entry.
C4_ExactlyOneCdnAbove10000 ==
    (Recommended /\ estimated_users > 10000) => Cardinality(CdnEntries(services)) = 1

\* the catalogs supplied no cdn service and one was appended
C4_Witness ==
    /\ op = "recommend_services"
    /\ estimated_users > 10000
    /\ ~HasKey(AddFeatures(PrimaryServices(classification.primary),
                           classification.features, classification.primary),
               "cloudfront")
    /\ services[Len(services)].category = "cdn"

\* the (min, max) a service's typical_monthly string states
StatedRange(service) ==
    LET parts == Split(service.typical_monthly, "-")
    IN  [min |-> ParseDigits(parts[1], 0), max |-> ParseDigits(parts[2], 0)]

RECURSIVE SumOfMin(_)
SumOfMin(svcs) ==
    IF svcs = <<>> THEN 0 ELSE StatedRange(Head(svcs)).min + SumOfMin(Tail(svcs))

RECURSIVE SumOfMax(_)
SumOfMax(svcs) ==
    IF svcs = <<>> THEN 0 ELSE StatedRange(Head(svcs)).max + SumOfMax(Tail(svcs))

\* C5: the cost summary of an analyze response has minimum = the sum of the
\* services' minimum costs, maximum = the sum of their maximum costs and
\* typical = (minimum + maximum) / 2.
C5_TypicalIsMeanOfServiceRanges ==
    op = "analyze" =>
        /\ cost_analysis.summary.minimum = "$" \o ToString(SumOfMin(services))
        /\ cost_analysis.summary.maximum = "$" \o ToString(SumOfMax(services))
        /\ cost_analysis.summary.typical
              = "$" \o Format0f(SumOfMin(services) + SumOfMax(services))

\* C6: the cost breakdown of an analyze response has exactly one entry per
\* recommended service, keyed by its display name, whose text is "$min-max"
\* (or "$min-$max") of that service's own scaled range.
C6_BreakdownMatchesServices ==
    op = "analyze" =>
        /\ Len(cost_analysis.breakdown) = Len(services)
        /\ \A i \in 1..Len(services) :
              \E j \in 1..Len(cost_analysis.breakdown) :
                 LET r == StatedRange(services[i])
                     b == cost_analysis.breakdown[j]
                 IN  /\ b.name = services[i].name
                     /\ b.text \in {"$" \o ToString(r.min) \o "-" \o ToString(r.max),
                                    "$" \o ToString(r.min) \o "-$" \o ToString(r.max)}

StoreAt(users) ==
    /\ op = "analyze"
    /\ description = ExampleStore
    /\ estimated_users = users

\* C7 as stated: for the online-store description and 5000 users the list holds
\* no CloudFront (cdn) service.
C7_NoCdnAt5000 == StoreAt(5000) => CdnEntries(services) = {}

\* C7 amended: for the online-store description and 5000 users the list holds
\* exactly one cdn service, the CloudFront entry of the ecommerce catalog, and
\* step 3 appends none.
C7_OnlyCatalogCdnAt5000 ==
    StoreAt(5000) =>
        /\ Cardinality(CdnEntries(services)) = 1
        /\ \A i \in CdnEntries(services) :
              /\ services[i].name = "Amazon CloudFront"
              /\ services[i].why_needed
                    = "Delivers product images and website assets globally with low latency"
        /\ Len(services) = Len(CatalogOf("ecommerce"))

C7_Witness == StoreAt(5000) /\ CdnEntries(services) # {}

\* the base range of the service with this display name
BaseRangeOfName(name) ==
    LET entry == CHOOSE e \in {CatalogOf("ecommerce")[k] : k \in 1..Len(CatalogOf("ecommerce"))} :
                    e.name = name
    IN  base_costs[CHOOSE k \in 1..Len(base_costs) : base_costs[k].key = entry.key]

\* service i's range is its base range times the whole factor
ScaledBy(svcs, i, factor) ==
    LET b == BaseRangeOfName(svcs[i].name)
    IN  svcs[i].typical_monthly = ToString(factor * b.min) \o "-" \o ToString(factor * b.max)

StoreServicesAt5000 == recommend_services(classify_use_case(ExampleStore), 5000)

\* C8 as stated: at 50000 users the classification is the one for 5000 users, the
\* list is the list for 5000 users plus a cdn service that list lacks, and every
\* range is the base range times 2.
C8_CdnAddedAt50000 ==
    StoreAt(50000) =>
        /\ classification = classify_use_case(ExampleStore)
        /\ Len(services) = Len(StoreServicesAt5000) + 1
        /\ \A i \in 1..Len(StoreServicesAt5000) :
              services[i].name = StoreServicesAt5000[i].name
        /\ CdnEntries(StoreServicesAt5000) = {}
        /\ CdnEntries(services) # {}
        /\ \A i \in 1..Len(services) : ScaledBy(services, i, 2)

\* C8 amended: at 50000 users the classification is the one for 5000 users, the
\* list holds the same services in the same order as for 5000 users (the
\* ecommerce catalog's CloudFront among them, so no cdn service is added), and
\* every range is the base range times 2.
C8_SameServicesDoubledAt50000 ==
    StoreAt(50000) =>
        /\ classification.primary = "ecommerce"
        /\ classification.features = <<"ecommerce">>
        /\ 5 * classification.confidence = 4 * ConfidenceScale
        /\ Len(services) = Len(StoreServicesAt5000)
        /\ \A i \in 1..Len(services) :
              /\ services[i].name = StoreServicesAt5000[i].name
              /\ services[i].why_needed = StoreServicesAt5000[i].why_needed
        /\ Cardinality(CdnEntries(services)) = 1
        /\ CdnEntries(StoreServicesAt5000) = CdnEntries(services)
        /\ \A i \in 1..Len(services) : ScaledBy(services, i, 2)

C8_Witness == StoreAt(50000) /\ CdnEntries(services) # {} /\ Len(services) > 5

HasService(svcs, name, range) ==
    \E i \in 1..Len(svcs) : svcs[i].name = name /\ svcs[i].typical_monthly = range

\* C9: the online-store description is classified ecommerce with confidence
\* above 0.5 and ecommerce first among the features, and at 5000 users the list
\* holds Cognito 0-25, DynamoDB 5-30, Lambda 10-50, API Gateway 5-30, S3 5-20.
C9_StoreExampleAt5000 ==
    /\ (Classified /\ description = ExampleStore) =>
          /\ classification.primary = "ecommerce"
          /\ 2 * classification.confidence > ConfidenceScale
          /\ classification.features[1] = "ecommerce"
    /\ StoreAt(5000) =>
          /\ HasService(services, "Amazon Cognito", "0-25")
          /\ HasService(services, "Amazon DynamoDB", "5-30")
          /\ HasService(services, "AWS Lambda", "10-50")
          /\ HasService(services, "Amazon API Gateway", "5-30")
          /\ HasService(services, "Amazon S3", "5-20")

C9_Witness == StoreAt(5000) /\ Len(services) >= 5 /\ classification.confidence > 0

\* no Lambda-like and no API-Gateway-like service among the names
NoComputeOrApi(names) ==
    /\ ~AnyContains("lambda", names)
    /\ ~AnyContains("apigateway", names)
    /\ ~AnyContains("api gateway", names)

\* a Cognito, DynamoDB, RDS or S3 service among the names
HasCoreService(names) ==
    \E i \in 1..Len(names) :
        \E word \in {"cognito", "dynamodb", "rds", "s3"} : Contains(word, Lower(names[i]))

\* C10 as stated: with no Lambda-like and no API-Gateway-like service and
\* estimated_users <= 1000 the guide has at least 4 phases.
C10_AtLeastFourPhases ==
    (Guided /\ NoComputeOrApi(service_names) /\ estimated_users <= 1000) =>
        Len(guide.phases) >= 4

\* C10 amended: with no Lambda-like and no API-Gateway-like service and
\* estimated_users <= 1000 the guide has at least 3 phases: exactly 3 when the
\* list has no Cognito, DynamoDB, RDS or S3 service (the empty list included),
\* exactly 4 when it has one.
C10_ThreeOrFourPhases ==
    (Guided /\ NoComputeOrApi(service_names) /\ estimated_users <= 1000) =>
        Len(guide.phases) = IF HasCoreService(service_names) THEN 4 ELSE 3

C10_Witness ==
    /\ op = "generate_guide"
    /\ service_names = <<>>
    /\ estimated_users <= 1000
    /\ Len(guide.phases) = 3

\* the request went through AnalysisRequest and was let through
Accepted == op = "AnalysisRequest" /\ validation = "accepted"

\* d is stripped, HTML-escaped and white-space-collapsed: no white space at
\* either end, none but single spaces inside, none of < > " ', and every &
\* opens one of the five entities of html.escape
IsSanitizedText(d) ==
    /\ \A i \in 1..Len(d) :
        /\ Char(d, i) \notin {"\t", "\n", "\r", "<", ">", "\"", "'"}
        /\ Char(d, i) = " " => (i > 1 /\ i < Len(d) /\ Char(d, i + 1) # " ")
        /\ Char(d, i) = "&" =>
            \E e \in {"&amp;", "&lt;", "&gt;", "&quot;", "&#x27;"} :
                SubSeq(d, i, Min(Len(d), i + Len(e) - 1)) = e

\* C15: a request that AnalysisRequest accepts stores a description that is
\* stripped, HTML-escaped and white-space-collapsed and whose stored length is
\* between 10 and 5000, a user count between 1 and 100000000 and a budget among
\* low, medium, high.
C15_AcceptedRequestWithinLimits ==
    Accepted =>
        /\ IsSanitizedText(description)
        /\ Len(description) >= MinDescriptionLength
        /\ Len(description) <= MaxDescriptionLength
        /\ estimated_users >= MinEstimatedUsers
        /\ estimated_users <= MaxEstimatedUsers
        /\ budget \in Budgets

\* s is a non-empty string of decimal digits
IsNumber(s) ==
    /\ Len(s) > 0
    /\ \A i \in 1..Len(s) : Contains(Char(s, i), Digits)

\* text reads "<min>-<max>" with 0 <= min <= max
OrderedRange(text) ==
    LET parts == Split(text, "-")
    IN  /\ Len(parts) = 2
        /\ IsNumber(parts[1])
        /\ IsNumber(parts[2])
        /\ ParseFloat(parts[1]) >= 0
        /\ ParseFloat(parts[1]) <= ParseFloat(parts[2])

KnownKey(key) == \E i \in 1..Len(base_costs) : base_costs[i].key = key

\* C16: for every service key, with or without a base range, and every user
\* count, the range get_cost_estimate returns and the range of every entry of
\* recommend_services read "<min>-<max>" with 0 <= min <= max.
C16_RangeOrdered ==
    /\ op = "get_cost_estimate" => OrderedRange(cost_estimate)
    /\ Recommended => \A i \in 1..Len(services) : OrderedRange(services[i].typical_monthly)

C16_Witness ==
    /\ op = "get_cost_estimate"
    /\ ~KnownKey(estimate_key)
    /\ estimated_users = 100000
    /\ cost_estimate = "5-30"

\* C17: for a fixed service key the scaled minimum and the scaled maximum at a
\* user count are at most those at every greater user count.
C17_ScalingMonotonic ==
    op = "get_cost_estimate" =>
        \A u2 \in EstimateUserCounts :
            estimated_users <= u2 =>
                LET r1 == ParsedRange(cost_estimate)
                    r2 == ParsedRange(get_cost_estimate(estimate_key, u2))
                IN  r1.min <= r2.min /\ r1.max <= r2.max

C17_Witness ==
    /\ op = "get_cost_estimate"
    /\ estimate_key = "lambda"
    /\ estimated_users = 500
    /\ cost_estimate = "5-25"
    /\ get_cost_estimate(estimate_key, 50000) = "20-100"

\* the services a detected feature stands for: its SERVICE_CATALOG entry, or
\* its FEATURE_SERVICES entry
FeatureServiceNames(feature) ==
    IF feature \in CatalogCategories
    THEN {CatalogOf(feature)[i].name : i \in 1..Len(CatalogOf(feature))}
    ELSE UNION {{FEATURE_SERVICES[i].services[j].name :
                    j \in 1..Len(FEATURE_SERVICES[i].services)} :
                i \in {k \in 1..Len(FEATURE_SERVICES) :
                          FEATURE_SERVICES[k].category = feature}}

\* C18: for every feature of the classification other than the primary, the
\* result of recommend_services holds the services of that feature; with
\* "authentication" a feature of primary "api" it holds Amazon Cognito, with
\* "file_storage" Amazon S3.
C18_FeatureServicesAdded ==
    op = "recommend_services" =>
        \A k \in 1..Len(classification.features) :
            classification.features[k] # classification.primary =>
                \A name \in FeatureServiceNames(classification.features[k]) :
                    \E i \in 1..Len(services) : services[i].name = name

Endpoints == {"POST /api/analyze", "POST /api/iac", "POST /api/narrative"}

\* the accepted calls of history with a timestamp in (time - RATE_LIMIT_WINDOW, time]
WindowCount(history, time) ==
    Cardinality({i \in 1..Len(history) :
                    history[i] > time - RATE_LIMIT_WINDOW /\ history[i] <= time})

\* the key has used up its RATE_LIMIT_REQUESTS in the window that ends now
Exhausted(key) == WindowCount(accepted[key], now) >= RATE_LIMIT_REQUESTS

\* no pipeline stage ran in the response state reached
PipelineNotRun ==
    /\ classification' = NoClassification
    /\ services' = <<>>
    /\ service_names' = <<>>
    /\ cost_analysis' = NoCosts
    /\ guide' = NoGuide

\* a request to endpoint is answered in this step
Answers(endpoint) == op = "none" /\ op' = endpoint

\* C11: when a non-anonymous key has used up its RATE_LIMIT_REQUESTS in the
\* current window, the next analyze request of that key is answered with
\* status 429 and "Rate limit exceeded", and the pipeline is not run.
C11_ExhaustedAnalyzeAnswered429 ==
    [][(/\ Answers("POST /api/analyze")
        /\ api_key' \in VALID_API_KEYS
        /\ Exhausted(api_key'))
       => (/\ status' = 429
           /\ Contains("Rate limit exceeded", detail')
           /\ PipelineNotRun)]_vars

\* C12: a direct check_rate_limit call of key k at time now is rejected exactly
\* when RATE_LIMIT_REQUESTS accepted calls of k have a timestamp in
\* (now - RATE_LIMIT_WINDOW, now]; after an accepted call at most
\* RATE_LIMIT_REQUESTS accepted calls of k, itself included, lie in that window;
\* and the call leaves the stored timestamps and the history of every other key
\* unchanged.
C12_SlidingWindow ==
    [][\A k \in VALID_API_KEYS :
        (op = "none" /\ op' = "check_rate_limit" /\ api_key' = k) =>
            /\ (status' = 429) <=> Exhausted(k)
            /\ status' # 429 => WindowCount(accepted'[k], now) <= RATE_LIMIT_REQUESTS
            /\ \A j \in VALID_API_KEYS \ {k} :
                /\ rate_limit_storage'[j] = rate_limit_storage[j]
                /\ accepted'[j] = accepted[j]]_vars

\* an accepted call while RATE_LIMIT_REQUESTS accepted calls are exactly
\* RATE_LIMIT_WINDOW old
C12_Witness ==
    /\ op = "check_rate_limit"
    /\ status = 0
    /\ now >= RATE_LIMIT_WINDOW
    /\ Cardinality({i \in 1..Len(accepted[api_key]) :
                       accepted[api_key][i] = now - RATE_LIMIT_WINDOW})
         = RATE_LIMIT_REQUESTS
    /\ accepted[api_key][Len(accepted[api_key])] = now

\* C13: a key of VALID_API_KEYS is handed on unchanged; without a key the
\* identity is "anonymous" when ALLOW_ANONYMOUS is true and the request is
\* refused with 401 otherwise; any other key is refused with 403; a refused
\* request runs no pipeline stage; an anonymous analyze request leaves
\* rate_limit_storage unchanged.
C13_Admission ==
    [][\A endpoint \in Endpoints :
        Answers(endpoint) =>
            /\ x_api_key' \in VALID_API_KEYS =>
                    api_key' = x_api_key' /\ status' \notin {401, 403}
            /\ (x_api_key' = "" /\ allow_anonymous) =>
                    api_key' = "anonymous" /\ status' \notin {401, 403}
            /\ (x_api_key' = "" /\ ~allow_anonymous) => status' = 401
            /\ (x_api_key' # "" /\ x_api_key' \notin VALID_API_KEYS) => status' = 403
            /\ status' \in {401, 403} => api_key' = "" /\ PipelineNotRun
            /\ api_key' \in {"", "anonymous"} =>
                    rate_limit_storage' = rate_limit_storage]_vars

C13_Witness ==
    /\ op = "POST /api/analyze"
    /\ x_api_key = "wrong-key"
    /\ status = 403
    /\ classification = NoClassification
    /\ guide = NoGuide

\* the messages of the exceptions the stages raise
FaultMessages ==
    UNION {{f.message : f \in Faults(endpoint) \ {NoFault}} : endpoint \in Endpoints}

\* C14: when a stage raises inside a POST operation the response has status
\* 500 and its detail does not contain the exception's message.
C14_FailureDetailGeneric ==
    (op \in Endpoints /\ status = 500) =>
        \A m \in FaultMessages : ~Contains(m, detail)

\* C20: for a key of VALID_API_KEYS each of the three POST operations refuses
\* to run the pipeline once the key has used up its RATE_LIMIT_REQUESTS in the
\* current window, and otherwise records the request: one more timestamp of
\* the key lies in the window.
C20_AllOperationsLimited ==
    [][\A endpoint \in Endpoints :
        (Answers(endpoint) /\ api_key' \in VALID_API_KEYS) =>
            IF Exhausted(api_key')
            THEN status' # 200 /\ PipelineNotRun
            ELSE WindowCount(rate_limit_storage'[api_key'], now)
                    = WindowCount(rate_limit_storage[api_key'], now) + 1]_vars

\* how often timestamp ts occurs in the list
Occurrences(list, ts) == Cardinality({i \in 1..Len(list) : list[i] = ts})

\* C19: with the steps of concurrent check_rate_limit calls of one key
\* interleaved, every accepted timestamp still inside the window is in
\* rate_limit_storage as often as it was accepted, and no window holds more
\* than RATE_LIMIT_REQUESTS accepted calls.
C19_NoLostTimestampNoExcess ==
    /\ \A ts \in 0..MaxTime :
        ts > now - RATE_LIMIT_WINDOW =>
            Occurrences(rate_limit_storage[RaceKey], ts) >= Occurrences(accepted[RaceKey], ts)
    /\ \A end \in 0..MaxTime :
        WindowCount(accepted[RaceKey], end) <= RATE_LIMIT_REQUESTS

\* the keywords of the i-th declared category that occur in the lower-cased
\* description dl
MatchedKeywords(i, dl) ==
    {kw \in {USE_CASE_KEYWORDS[i].keywords[k] :
                k \in 1..Len(USE_CASE_KEYWORDS[i].keywords)} : Contains(kw, dl)}

\* the score of every declared category: its distinct matching keywords
ScoresOf(d) ==
    LET dl == Lower(d)
    IN  [i \in 1..Len(USE_CASE_KEYWORDS) |-> Cardinality(MatchedKeywords(i, dl))]

\* the place of a category in USE_CASE_KEYWORDS
Declared(category) ==
    CHOOSE i \in 1..Len(USE_CASE_KEYWORDS) : USE_CASE_KEYWORDS[i].category = category

\* with the scores sc, the i-th declared category ranks before the j-th:
\* higher score, or equal score and declared first
RanksBefore(sc, i, j) ==
    \/ sc[i] > sc[j]
    \/ sc[i] = sc[j] /\ i < j

\* the declared places of the categories that score above 0
Scoring(sc) == {i \in 1..Len(sc) : sc[i] > 0}

\* C21: when a category scores above 0, primary has the highest score and is
\* features[0]; features holds scoring categories, each ranking before the
\* next (higher score, or equal score and declared first), and every scoring
\* category left out ranks after all of them.
C21_StableRanking ==
    Classified =>
        LET sc == ScoresOf(description)
            f == classification.features
            at(k) == Declared(f[k])
        IN  Scoring(sc) # {} =>
            /\ Len(f) = Min(4, Cardinality(Scoring(sc)))
            /\ classification.primary = f[1]
            /\ \A i \in Scoring(sc) : sc[i] <= sc[at(1)]
            /\ \A k \in 1..Len(f) : at(k) \in Scoring(sc)
            /\ \A k \in 1..(Len(f) - 1) : RanksBefore(sc, at(k), at(k + 1))
            /\ \A i \in Scoring(sc) \ {at(k) : k \in 1..Len(f)} :
                  RanksBefore(sc, at(Len(f)), i)

\* two categories tie at the top: the one declared first is the primary
C21_Witness ==
    /\ op = "classify_use_case"
    /\ description = "login store"
    /\ classification.features = <<"ecommerce", "authentication">>
    /\ classification.primary = "ecommerce"

\* the highest score
TopScore(sc) == CHOOSE n \in {sc[i] : i \in Scoring(sc)} : \A i \in Scoring(sc) : sc[i] <= n

\* a second scoring category has at least 70% of the highest score
SecondNearTop(sc) ==
    \E i, j \in Scoring(sc) :
        /\ i # j
        /\ sc[i] = TopScore(sc)
        /\ 10 * sc[j] >= 7 * TopScore(sc)

\* C22: when a category scores above 0, confidence is min(top_score / 5, 1),
\* times 0.9 once iff a second scoring category has at least 70% of the top
\* score, where a score counts each distinct matching keyword once.
C22_ConfidenceFormula ==
    Classified =>
        LET sc == ScoresOf(description)
            base == Min((ConfidenceScale * TopScore(sc)) \div 5, ConfidenceScale)
        IN  Scoring(sc) # {} =>
                classification.confidence =
                    IF SecondNearTop(sc) THEN (9 * base) \div 10 ELSE base

\* "shop" occurs four times and "cart" once: ecommerce scores 2, confidence 0.4
C22_Witness ==
    /\ op = "classify_use_case"
    /\ description = "shop shop shop and a shopping cart"
    /\ classification.primary = "ecommerce"
    /\ classification.confidence = (2 * ConfidenceScale) \div 5

\* the entries step 1 starts from
InitialSet(c) ==
    IF c.primary \in CatalogCategories THEN CatalogOf(c.primary) ELSE DEFAULT_SERVICES

\* where the features discover a service name: <<k, j>> when it is the j-th
\* entry of the catalog of the k-th feature, a feature other than the primary
Discoveries(name, c) ==
    UNION {{<<k, j>> : j \in {i \in 1..Len(CatalogOf(c.features[k])) :
                                CatalogOf(c.features[k])[i].name = name}} :
           k \in {i \in 1..Len(c.features) :
                     c.features[i] # c.primary /\ c.features[i] \in CatalogCategories}}

\* the first discovery: the earliest feature, and the place in its catalog
FirstDiscovery(name, c) ==
    CHOOSE p \in Discoveries(name, c) :
        \A q \in Discoveries(name, c) :
            p[1] < q[1] \/ (p[1] = q[1] /\ p[2] <= q[2])

\* C23: the result starts with the services of the primary's catalog entry (or
\* the default set) in declaration order; then come the services discovered
\* by the other features, by feature rank and, within a feature, by catalog
\* order; a CloudFront entry that no catalog entry brought in, added above
\* 10000 users, is last.
C23_DiscoveryOrder ==
    Recommended =>
        LET c == classification
            names == ServiceNames(services)
            first == InitialSet(c)
            later == (Len(first) + 1)..Len(names)
            found == {i \in later : Discoveries(names[i], c) # {}}
        IN  /\ Len(names) >= Len(first)
            /\ \A i \in 1..Len(first) : names[i] = first[i].name
            /\ \A i \in later \ found :
                  /\ i = Len(names)
                  /\ names[i] = "Amazon CloudFront"
                  /\ estimated_users > 10000
            /\ \A i, j \in found :
                  i < j =>
                      LET p == FirstDiscovery(names[i], c)
                          q == FirstDiscovery(names[j], c)
                      IN  p[1] < q[1] \/ (p[1] = q[1] /\ p[2] < q[2])

\* all three steps add entries: primary api, features real_time and
\* marketplace, 50000 users
C23_Witness ==
    /\ op = "recommend_services"
    /\ classification.primary = "api"
    /\ classification.features = <<"real_time", "marketplace">>
    /\ estimated_users = 50000
    /\ ServiceNames(services) =
          <<"AWS Lambda", "Amazon API Gateway", "Amazon DynamoDB", "AWS AppSync",
            "Amazon Cognito", "Amazon S3", "Amazon SES", "Amazon CloudFront">>

\* twice the multiplier the tiers give: 0.5, 1.0, 2.0, 4.0
TwiceTierMultiplier(users) ==
    CASE users < 1000 -> 1
      [] users >= 1000 /\ users < 10000 -> 2
      [] users >= 10000 /\ users < 100000 -> 4
      [] users >= 100000 -> 8

\* the base range of a key that has one
BaseRange(key) == base_costs[CHOOSE i \in 1..Len(base_costs) : base_costs[i].key = key]

\* C24: for a key with base range (base_min, base_max) get_cost_estimate
\* returns floor(base_min * m) and floor(base_max * m), m the multiplier of the
\* user tier; for a key without base range it returns 5-30 at every user count.
C24_TierScaling ==
    op = "get_cost_estimate" =>
        cost_estimate =
            IF KnownKey(estimate_key)
            THEN ToString((BaseRange(estimate_key).min
                             * TwiceTierMultiplier(estimated_users)) \div 2)
                 \o "-"
                 \o ToString((BaseRange(estimate_key).max
                                * TwiceTierMultiplier(estimated_users)) \div 2)
            ELSE "5-30"

\* 25 * 0.5 = 12.5 is cut to 12
C24_Witness ==
    /\ op = "get_cost_estimate"
    /\ estimate_key = "cognito"
    /\ estimated_users = 999
    /\ cost_estimate = "0-12"

\* C25: recommend_services returns at least one service; for a primary that is
\* no key of SERVICE_CATALOG the result starts with Lambda, API Gateway,
\* DynamoDB, S3 in that order, and every further entry was discovered by a
\* feature or is the CloudFront entry added above 10000 users.
C25_DefaultSetFallback ==
    Recommended =>
        LET names == ServiceNames(services)
        IN  /\ Len(names) > 0
            /\ classification.primary \notin CatalogCategories =>
                  /\ Len(names) >= 4
                  /\ SubSeq(names, 1, 4) =
                        <<"AWS Lambda", "Amazon API Gateway", "Amazon DynamoDB",
                          "Amazon S3">>
                  /\ \A i \in 5..Len(names) :
                        \/ Discoveries(names[i], classification) # {}
                        \/ names[i] = "Amazon CloudFront" /\ estimated_users > 10000

\* the classifier's own output analytics is no catalog key
C25_Witness ==
    /\ op = "recommend_services"
    /\ classification.primary = "analytics"
    /\ classification.features = <<"authentication">>
    /\ estimated_users = 5000
    /\ Len(services) = 4

\* the names of the phases in the guide
PhaseNames == [i \in 1..Len(guide.phases) |-> guide.phases[i].name]

\* C26: the phases are, in this order, Foundation Setup, Core Infrastructure
\* iff a Cognito, DynamoDB, RDS or S3 service is present, Compute & API Layer
\* iff a Lambda-like or API-Gateway-like service is present, Integration &
\* Testing, Performance Optimization iff estimated_users > 1000, Production
\* Deployment.
C26_PhaseSequence ==
    Guided =>
        PhaseNames =
            <<"Foundation Setup">>
            \o (IF HasCoreService(service_names) THEN <<"Core Infrastructure">> ELSE <<>>)
            \o (IF ~NoComputeOrApi(service_names) THEN <<"Compute & API Layer">>
                ELSE <<>>)
            \o <<"Integration & Testing">>
            \o (IF estimated_users > 1000 THEN <<"Performance Optimization">> ELSE <<>>)
            \o <<"Production Deployment">>

\* all optional conditions hold: six phases
C26_Witness ==
    /\ op = "generate_guide"
    /\ service_names = <<"Amazon API Gateway", "Amazon S3">>
    /\ estimated_users = 1001
    /\ Len(guide.phases) = 6
    /\ guide.phases[3].name = "Compute & API Layer"

\* the cost range of a user count
BucketOf(users) ==
    CASE users < 1000 -> "$0-50"
      [] users >= 1000 /\ users < 10000 -> "$50-200"
      [] users >= 10000 -> "$200-1000"

\* the cost note of a user count
NoteOf(users) ==
    CASE users < 1000 -> "Can run mostly on AWS Free Tier"
      [] users >= 1000 /\ users < 10000 -> "Some Free Tier benefits available"
      [] users >= 10000 -> "Production-grade costs"

\* C28: whatever the service list, the classification and the cost analysis,
\* the guide's estimated cost, cost note and budget-alert step are those of the
\* bucket of estimated_users: "$0-50" below 1000, "$50-200" below 10000,
\* "$200-1000" otherwise.
C28_CostBucketByUsersOnly ==
    Guided =>
        /\ guide.introduction.estimated_cost = BucketOf(estimated_users) \o "/month"
        /\ guide.introduction.cost_note = NoteOf(estimated_users)
        /\ guide.next_steps[1] =
              "1. Set up AWS account with budget alert for " \o BucketOf(estimated_users)

C28_Witness ==
    /\ op = "generate_guide"
    /\ service_names = <<"Amazon RDS", "Amazon Cognito">>
    /\ estimated_users = 5000
    /\ guide.introduction.estimated_cost = "$50-200/month"

\* the oldest timestamp of a non-empty list
Oldest(list) == CHOOSE ts \in {list[i] : i \in 1..Len(list)} :
                    \A i \in 1..Len(list) : ts <= list[i]

\* C29: a rejected check_rate_limit call of key k keeps of the stored list
\* exactly the timestamps still inside the window and adds none; and a call
\* made when RATE_LIMIT_WINDOW seconds or more have passed since the oldest
\* stored timestamp of k is accepted.
C29_RejectedCallsRecordNothing ==
    [][\A k \in VALID_API_KEYS :
        (op = "none" /\ op' = "check_rate_limit" /\ api_key' = k) =>
            /\ status' = 429 =>
                  /\ accepted'[k] = accepted[k]
                  /\ \A ts \in 0..MaxTime :
                        Occurrences(rate_limit_storage'[k], ts) =
                            IF ts > now - RATE_LIMIT_WINDOW
                            THEN Occurrences(rate_limit_storage[k], ts)
                            ELSE 0
            /\ (/\ rate_limit_storage[k] # <<>>
                /\ now >= Oldest(rate_limit_storage[k]) + RATE_LIMIT_WINDOW)
               => status' # 429]_vars

\* a call rejected after the clock moved on: the list still holds only the
\* accepted timestamps
C29_Witness ==
    /\ op = "check_rate_limit"
    /\ status = 429
    /\ now > 0
    /\ Len(rate_limit_storage[api_key]) = RATE_LIMIT_REQUESTS
    /\ \A i \in 1..Len(rate_limit_storage[api_key]) : rate_limit_storage[api_key][i] < now
    /\ rate_limit_storage[api_key] = accepted[api_key]

\* the entries of the table hold a Lambda and a DynamoDB service
HasLambdaAndDynamoDB(entries) ==
    /\ \E i \in 1..Len(entries) : entries[i].name = "AWS Lambda"
    /\ \E i \in 1..Len(entries) : entries[i].name = "Amazon DynamoDB"

\* C30: every entry of SERVICE_CATALOG and the default set hold a Lambda and a
\* DynamoDB service, so for every request analyze processes the names handed
\* to generate_guide include both, and the guide has Core Infrastructure and
\* Compute & API Layer and exactly 5 phases up to 1000 users, 6 above.
C30_AnalyzeGuideHasFiveOrSixPhases ==
    /\ \A category \in CatalogCategories : HasLambdaAndDynamoDB(CatalogOf(category))
    /\ HasLambdaAndDynamoDB(DEFAULT_SERVICES)
    /\ op = "analyze" =>
          /\ \E i \in 1..Len(service_names) : service_names[i] = "AWS Lambda"
          /\ \E i \in 1..Len(service_names) : service_names[i] = "Amazon DynamoDB"
          /\ Len(guide.phases) = IF estimated_users <= 1000 THEN 5 ELSE 6
          /\ guide.phases[2].name = "Core Infrastructure"
          /\ guide.phases[3].name = "Compute & API Layer"

\* a description without keyword at exactly 1000 users: the default set, 5 phases
C30_Witness ==
    /\ op = "analyze"
    /\ classification.primary = "web_application"
    /\ estimated_users = 1000
    /\ Len(services) = 4
    /\ Len(guide.phases) = 5

\* what each stage returns for a body, whatever came before
ResultOf ==
    [b \in Bodies |->
        [classification |-> classify_use_case(b.description),
         services |->
             recommend_services(classify_use_case(b.description), b.estimated_users),
         cost_analysis |->
             calculate_costs(
                 ServiceNames(recommend_services(classify_use_case(b.description),
                                                 b.estimated_users)),
                 b.estimated_users),
         guide |->
             generate_guide(
                 ServiceNames(recommend_services(classify_use_case(b.description),
                                                 b.estimated_users)),
                 classify_use_case(b.description), b.estimated_users)]]

====
